---- MODULE Spec2Model ----
(***************************************************************************)
(* A model of the job/worker lifecycle core of microcosm.                  *)
(*                                                                         *)
(* Part 1: the server-master Job FSM (servermaster/job_fsm.go).            *)
(*                                                                         *)
(* A MasterMeta is a heap object (the Go code passes *MasterMeta around    *)
(* and IterPendingJobs writes job.ID through the pointer), so the model    *)
(* keeps a heap metaID: object -> its ID field, and the three maps hold    *)
(* object references.  A master id is a number in IDs; a WorkerHandle is   *)
(* known to the FSM only through worker.ID().                              *)
(*                                                                         *)
(* jobsMu is modelled explicitly.  The six short operations take and       *)
(* release it inside one action; IterPendingJobs and IterWaitAckJobs hold  *)
(* it across their loop, one step per dispatchJobFn call and return, and   *)
(* every other operation is blocked meanwhile.                             *)
(*                                                                         *)
(* Part 2: the executor runtime (executor/runtime/runtime.go), under the   *)
(* specification SpecRt.  Runtime.Run and the queue are in the source;     *)
(* the task container (Poll, tryBlock, setRunnable), its waker and Submit  *)
(* are not, and are modelled from the design document.                     *)
(*                                                                         *)
(* Part 3: the worker implementations cvsTask and dummyWorker              *)
(* (unnamed/part_000), under the specification SpecWorker.  The registry   *)
(* constructs one of the two; the framework calls InitImpl, Tick and       *)
(* CloseImpl on it.  cvsTask's Receive and Send goroutines take one step   *)
(* per blocking call.  Time is counted in units of 1/UnitsPerSecond s.     *)
(*                                                                         *)
(* Part 4: the logic epoch of the orm client (pkg/orm/client.go), under    *)
(* the specification SpecEpoch.  GenEpoch is a database transaction of an  *)
(* UPDATE and a SELECT of one row; the UPDATE holds the row's lock until   *)
(* the transaction commits or rolls back.                                  *)
(*                                                                         *)
(* Part 5: the mock metastore (pkg/meta/kvclient/mock), under the          *)
(* specification SpecMeta.  A key is a sequence of characters; Commit of   *)
(* a transaction takes one step per op.                                    *)
(*                                                                         *)
(* Part 6: the heartbeat protocol between one worker and its master        *)
(* (unnamed/part_001), under the specification SpecHb.  The source holds   *)
(* the durations and the two messages; the two loops that use them are     *)
(* modelled from the design document.  Time is counted in seconds.         *)
(*                                                                         *)
(* Part 7: the etcd response adapters makeGetResp and makeTxnResp          *)
(* (unnamed/part_003), under the specification SpecResp.                   *)
(***************************************************************************)
EXTENDS Integers, FiniteSets, Sequences, TLC

\* Number of distinct master / worker ids the callers and dispatchJobFn use.
NumIDs == 2
\* Number of MasterMeta objects ever handed to JobDispatched.
MaxJobs == 2

IDs == 1..NumIDs

\* Number of task containers ever submitted to the runtime.
NumTasks == 2

Tasks == 1..NumTasks

\* Clock units in one second, and the last clock value reached.
UnitsPerSecond == 2
MaxTime == 6
\* Capacity of cvsTask.buffer (1024 in the source: scaled down, and raised
\* together with the other bounds), and the number of pairs upstream holds.
BUFFERSIZE == 1
MaxPairs == 2
\* The last value dummyWorker.tick reaches.
MaxTick == 2

\* Number of concurrent callers of GenEpoch, and of successful calls made.
NumClients == 2
MaxGen == 3
defaultMinEpoch == 1

Clients == 1..NumClients

\* The durations of unnamed/part_001, in seconds.
workerTimeoutDuration == 15
workerTimeoutGracefulDuration == 5
workerHeartbeatInterval == 3
masterHeartbeatCheckLoopInterval == 1
\* The last clock value of the heartbeat protocol, the number of messages of
\* one sender a topic holds in flight, the longest time a message is in
\* flight, and the last master epoch.
MaxHbTime == 24
MaxInFlight == 1
MaxDelay == 3
MaxEpoch == 2
\* Longest Kvs of an etcd GetResponse handed to makeGetResp.
MaxKvs == 2
\* Longest Responses of an etcd TxnResponse handed to makeTxnResp.
MaxRsps == 2

\* The last value MetaMock.revision reaches, and the most ops in a transaction.
MaxRevision == 4
MaxTxnOps == 2

VARIABLES
    pendingJobs,    \* map MasterID -> *MasterMeta
    waitAckJobs,    \* map MasterID -> *jobHolder
    onlineJobs,     \* map MasterID -> *jobHolder
    metaID,         \* heap of MasterMeta objects: metaID[m] is the ID field of object m
    jobsMu,         \* "free", or the name of the iterating operation that holds the lock
    cur,            \* {k} while dispatchJobFn runs for the entry under key k, else {}
    last,           \* the last operation step taken: its arguments and what it returned
    live,           \* history: MasterMeta objects entered and not finished
    dispatchErrs,   \* history: MasterMeta objects for which dispatchJobFn has failed
    qheld           \* history: the id of the QueryJob in progress has been held by
                    \* the FSM in every state since the call took the lock first

VARIABLES
    qpc,            \* where QueryJob is: "idle", "checkWaitAckJob", "checkOnlineJob"
    qid,            \* {jobID} of the QueryJob in progress, else {}
    qresp           \* what the last QueryJob returned for which id: "nil" or the Status
                    \* of its response ("none" while a call is in progress)

VARIABLES
    tasks,          \* Runtime.q.tasks: the FIFO queue of task containers
    ctxDone,        \* whether the ctx given to Run is cancelled
    pc,             \* where Run is: "select", "pop", "Poll", "status", "setRunnable", "push", "returned"
    t,              \* {x} while Run holds container x (from pop to push or park), else {}
    pollStatus,     \* status in Run: what the last Poll returned
    runnable,       \* per container: "none" (not submitted), "Runnable" or "Blocked"
    woken,          \* per container: a wake arrived since its Poll started
    rtLast,         \* the last runtime step taken and the container it was about
    readyTasks      \* history: containers whose Poll has returned Ready

VARIABLES
    impl,           \* the WorkerImpl constructed: "none", "cvsTask" or "dummyWorker"
    now,            \* the clock
    tokens,         \* statusRateLimiter: tokens left, in 1/UnitsPerSecond of a token
    limLast,        \* statusRateLimiter: the time tokens was last updated, {} before
    updates,        \* history: the times at which Tick called UpdateStatus, in order
    exits,          \* history: the (status code, run error) pairs Exit was called with
    code,           \* cvsTask.statusCode.code: "zero", "Normal", "Error", "Finished"
    runError,       \* cvsTask.runError.err
    cancelFn,       \* cvsTask.cancelFn is set (not nil)
    taskCtxDone,    \* the ctx InitImpl derived is cancelled
    buffer,         \* cvsTask.buffer: the pairs in the channel
    bufClosed,      \* cvsTask.buffer is closed
    recvd,          \* the number of pairs reader.Recv has returned
    reply,          \* Receive: {the pair it holds}, else {}
    pcRecv,         \* where the Receive goroutine is
    kv,             \* Send: {the pair it holds}, else {}
    pcSend,         \* where the Send goroutine is
    written,        \* the pairs writer.Send has written downstream, in order
    counter,        \* cvsTask.counter
    init,           \* dummyWorker.init
    closed,         \* dummyWorker.closed
    tick,           \* dummyWorker.tick
    pcTick,         \* where dummyWorker.Tick is: "idle", "loadClosed", "inc"
    closedAtCall,   \* history: closed was 1 when the Tick in progress was called
    wkLast          \* the last worker step taken and what it returned

VARIABLES
    epochRow,       \* logic_epochs: {} without the record, {e} with its committed epoch e
    rowLock,        \* {c} while the transaction of client c holds the record's lock
    pcGen,          \* per client, where its GenEpoch is: "idle", "update", "select", "commit"
    txEpoch,        \* per client: {the epoch its transaction wrote}, {} if it wrote none
    logicEp,        \* per client: {logicEp.Epoch its transaction selected}
    gens,           \* history: the epochs successful GenEpoch calls returned, in commit order
    epLast          \* the last step: its client, the epoch and the error it returned

VARIABLES
    store,          \* MetaMock.store
    revision,       \* MetaMock.revision
    txnOps,         \* mockTxn.ops
    txnNext,        \* Commit: the index of the op its loop is at, 0 outside Commit
    msLast          \* the last metastore step: op, key, value and the Kvs a Get returned

VARIABLES
    hbNow,          \* the clock, in seconds
    pings,          \* HeartbeatPingMessages in flight on the ping topic, in send order
    pongs,          \* HeartbeatPongMessages in flight on the pong topic
    workerEpoch,    \* the epoch the worker holds
    masterEpoch,    \* the epoch of the current master incarnation
    lastPing,       \* master: the time it last observed a ping of the worker
    lastAcked,      \* worker: the SendTime of the last ping a pong acknowledged
    nextPing,       \* worker: the time of its next heartbeat
    nextCheck,      \* master: the time of its next heartbeat check
    workerClosed,   \* the worker has initiated Close
    offline,        \* the master has declared the worker offline
    cut,            \* the network between worker and master is cut
    hbLast          \* the last heartbeat step: the pong handled, if it was HandlePong

VARIABLES
    etcdKvs,        \* the Kvs of the etcd GetResponse last converted
    getResp,        \* the Kvs of the GetResponse makeGetResp returned for it
    etcdRsps,       \* the Responses of the etcd TxnResponse last converted
    txnResp         \* the Responses of the TxnResponse makeTxnResp returned for it

fsmVars == <<pendingJobs, waitAckJobs, onlineJobs, metaID, jobsMu, cur, last, live,
             dispatchErrs, qheld>>

queryVars == <<qpc, qid, qresp>>

rtVars == <<tasks, ctxDone, pc, t, pollStatus, runnable, woken, rtLast, readyTasks>>

cvsVars == <<now, tokens, limLast, updates, exits, code, runError, cancelFn, taskCtxDone,
             buffer, bufClosed, recvd, reply, pcRecv, kv, pcSend, written, counter>>

dummyVars == <<init, closed, tick, pcTick, closedAtCall>>

wkVars == <<impl, cvsVars, dummyVars, wkLast>>

epVars == <<epochRow, rowLock, pcGen, txEpoch, logicEp, gens, epLast>>

msVars == <<store, revision, txnOps, txnNext, msLast>>

hbVars == <<hbNow, pings, pongs, workerEpoch, masterEpoch, lastPing, lastAcked, nextPing,
            nextCheck, workerClosed, offline, cut, hbLast>>

respVars == <<etcdKvs, getResp, etcdRsps, txnResp>>

vars == <<fsmVars, queryVars, rtVars, wkVars, epVars, msVars, hbVars, respVars>>

(* what a step of one part leaves alone: the variables of the other parts *)
notFsmVars == <<queryVars, rtVars, wkVars, epVars, msVars, hbVars, respVars>>

notRtVars == <<fsmVars, queryVars, wkVars, epVars, msVars, hbVars, respVars>>

notWkVars == <<fsmVars, queryVars, rtVars, epVars, msVars, hbVars, respVars>>

notEpVars == <<fsmVars, queryVars, rtVars, wkVars, msVars, hbVars, respVars>>

notMsVars == <<fsmVars, queryVars, rtVars, wkVars, epVars, hbVars, respVars>>

notHbVars == <<fsmVars, queryVars, rtVars, wkVars, epVars, msVars, respVars>>

notRespVars == <<fsmVars, queryVars, rtVars, wkVars, epVars, msVars, hbVars>>

(* what a step of QueryJob leaves alone beside the FSM's maps *)
notQueryVars == <<rtVars, wkVars, epVars, msVars, hbVars, respVars>>

maps == <<pendingJobs, waitAckJobs, onlineJobs>>

----------------------------------------------------------------------------
(* Go maps *)

EmptyMap == [k \in {} |-> {}]

MapPut(m, k, v) == [x \in (DOMAIN m) \cup {k} |-> IF x = k THEN v ELSE m[x]]

MapDelete(m, k) == [x \in (DOMAIN m) \ {k} |-> m[x]]

(* lib.WorkerHandle: the FSM reads only worker.ID(); a nil handle has no id *)
NilHandle == [nil |-> TRUE, id |-> {}]

WorkerHandle(id) == [nil |-> FALSE, id |-> {id}]

(* jobHolder{WorkerHandle, MasterMeta, addFromFailover} *)
jobHolder(handle, meta, addFromFailover) ==
    [WorkerHandle |-> handle, MasterMeta |-> meta, addFromFailover |-> addFromFailover]

(* what a step reports: the operation, its id argument, its bool argument
   (for JobOnline, which has none: the addFromFailover of the holder it
   found), the id dispatchJobFn returned (if any) and the error returned *)
Step(op, id, flag, ret, err) ==
    [op |-> op, id |-> id, flag |-> flag, ret |-> ret, err |-> err]

NoErr == "nil"
ErrWorkerNotFound == "ErrWorkerNotFound"
ErrDispatch == "dispatchJobFn error"
(* JobOffline returns nothing; its err field records the warning it logs *)
WarnUnknownWorker == "unknown worker, ignore it"

----------------------------------------------------------------------------
(* a step of a worker: the operation and the error it returned *)
WkStep(op, err) == [op |-> op, err |-> err]

(* a step of GenEpoch or InitializeEpoch *)
EpStep(op, c, epoch, err) == [op |-> op, client |-> c, epoch |-> epoch, err |-> err]

(* what QueryJob(jobID) returns: nil, or a response with a Status *)
QueryJobResponse(jobID, status) == [id |-> jobID, status |-> status]

(* a step of the metastore *)
MsStep(op, key, value, kvs) == [op |-> op, key |-> key, value |-> value, kvs |-> kvs]

(* a step of the heartbeat protocol: for HandlePong, the SendTime and Epoch
   of the pong handled *)
HbStep(op, sendTime, epoch) == [op |-> op, sendTime |-> sendTime, epoch |-> epoch]

(* NewJobFsm, NewRuntime, NewMetaMock; no worker is constructed yet and the
   logic_epochs table is empty *)
Init ==
    /\ pendingJobs = EmptyMap
    /\ waitAckJobs = EmptyMap
    /\ onlineJobs = EmptyMap
    /\ metaID = << >>
    /\ jobsMu = "free"
    /\ cur = {}
    /\ last = Step("NewJobFsm", {}, FALSE, {}, NoErr)
    /\ live = {}
    /\ dispatchErrs = {}
    /\ qheld = TRUE
    /\ qpc = "idle"
    /\ qid = {}
    /\ qresp = QueryJobResponse({}, "none")
    /\ tasks = << >>
    /\ ctxDone = FALSE
    /\ pc = "select"
    /\ t = {}
    /\ pollStatus = "none"
    /\ runnable = [x \in Tasks |-> "none"]
    /\ woken = [x \in Tasks |-> FALSE]
    /\ rtLast = [op |-> "NewRuntime", task |-> {}]
    /\ readyTasks = {}
    /\ impl = "none"
    /\ now = 0
    /\ tokens = 0
    /\ limLast = {}
    /\ updates = << >>
    /\ exits = {}
    /\ code = "zero"
    /\ runError = NoErr
    /\ cancelFn = FALSE
    /\ taskCtxDone = FALSE
    /\ buffer = << >>
    /\ bufClosed = FALSE
    /\ recvd = 0
    /\ reply = {}
    /\ pcRecv = "none"
    /\ kv = {}
    /\ pcSend = "none"
    /\ written = << >>
    /\ counter = 0
    /\ init = FALSE
    /\ closed = 0
    /\ tick = 0
    /\ pcTick = "idle"
    /\ closedAtCall = FALSE
    /\ wkLast = WkStep("none", NoErr)
    /\ epochRow = {}
    /\ rowLock = {}
    /\ pcGen = [c \in Clients |-> "idle"]
    /\ txEpoch = [c \in Clients |-> {}]
    /\ logicEp = [c \in Clients |-> {}]
    /\ gens = << >>
    /\ epLast = EpStep("none", {}, 0, NoErr)
    /\ store = EmptyMap
    /\ revision = 0
    /\ txnOps = << >>
    /\ txnNext = 0
    /\ msLast = MsStep("NewMetaMock", << >>, "", {})
    /\ hbNow = 0
    /\ pings = << >>
    /\ pongs = {}
    /\ workerEpoch = 1
    /\ masterEpoch = 1
    /\ lastPing = 0
    /\ lastAcked = 0
    /\ nextPing = 0
    /\ nextCheck = 0
    /\ workerClosed = FALSE
    /\ offline = FALSE
    /\ cut = FALSE
    /\ hbLast = HbStep("none", 0, 0)
    /\ etcdKvs = << >>
    /\ getResp = << >>
    /\ etcdRsps = << >>
    /\ txnResp = << >>

(* while a QueryJob is between two of its lookups, every FSM step notes
   whether the queried id is still held by one of the maps *)
QueryTrack ==
    qheld' = (qheld /\ \A id \in qid :
                id \in DOMAIN pendingJobs' \cup DOMAIN waitAckJobs' \cup DOMAIN onlineJobs')

(* JobCount(status) *)
JobCount(status) ==
    CASE status = "pending" -> Cardinality(DOMAIN pendingJobs)
      [] status = "dispatched" -> Cardinality(DOMAIN waitAckJobs)
      [] status = "online" -> Cardinality(DOMAIN onlineJobs)
      [] OTHER -> 0

(* JobDispatched(job, addFromFailover): job is a new MasterMeta object whose
   ID field is id *)
JobDispatched(id, addFromFailover) ==
    /\ jobsMu = "free"
    /\ Len(metaID) < MaxJobs
    /\ LET job == Len(metaID) + 1 IN
        /\ metaID' = Append(metaID, id)
        /\ waitAckJobs' = MapPut(waitAckJobs, id, jobHolder(NilHandle, job, addFromFailover))
        /\ live' = live \cup {job}
    /\ last' = Step("JobDispatched", {id}, addFromFailover, {}, NoErr)
    /\ UNCHANGED <<pendingJobs, onlineJobs, jobsMu, cur, dispatchErrs>>
    /\ QueryTrack
    /\ UNCHANGED notFsmVars

(* IterPendingJobs: jobsMu.Lock() *)
IterPendingJobsLock ==
    /\ jobsMu = "free"
    /\ jobsMu' = "IterPendingJobs"
    /\ last' = Step("IterPendingJobs.Lock", {}, FALSE, {}, NoErr)
    /\ UNCHANGED <<maps, metaID, cur, live, dispatchErrs>>
    /\ QueryTrack
    /\ UNCHANGED notFsmVars

(* IterPendingJobs: the range loop yields the entry under oldJobID and
   dispatchJobFn(job) is called.  Go visits the entries of a map in an
   unspecified order; entries already handled were deleted. *)
IterPendingJobsDispatch(oldJobID) ==
    /\ jobsMu = "IterPendingJobs"
    /\ cur = {}
    /\ oldJobID \in DOMAIN pendingJobs
    /\ cur' = {oldJobID}
    /\ last' = Step("IterPendingJobs.dispatchJobFn", {oldJobID}, FALSE, {}, NoErr)
    /\ UNCHANGED <<maps, metaID, jobsMu, live, dispatchErrs>>
    /\ QueryTrack
    /\ UNCHANGED notFsmVars

(* Variant of IterPendingJobsOk: the job is stored under oldJobID, not under
   the id dispatchJobFn returned *)
IterPendingJobsOkOldKey(id) ==
    /\ jobsMu = "IterPendingJobs"
    /\ \E oldJobID \in cur :
        LET job == pendingJobs[oldJobID] IN
        /\ pendingJobs' = MapDelete(pendingJobs, oldJobID)
        /\ metaID' = [metaID EXCEPT ![job] = id]
        /\ waitAckJobs' = MapPut(waitAckJobs, oldJobID, jobHolder(NilHandle, job, FALSE))
        /\ last' = Step("IterPendingJobs.ok", {oldJobID}, FALSE, {id}, NoErr)
    /\ cur' = {}
    /\ UNCHANGED <<onlineJobs, jobsMu, live, dispatchErrs>>
    /\ QueryTrack
    /\ UNCHANGED notFsmVars

(* IterPendingJobs: dispatchJobFn returned (id, nil) *)
IterPendingJobsOk(id) ==
    /\ jobsMu = "IterPendingJobs"
    /\ \E oldJobID \in cur :
        LET job == pendingJobs[oldJobID] IN
        /\ pendingJobs' = MapDelete(pendingJobs, oldJobID)
        /\ metaID' = [metaID EXCEPT ![job] = id]
        /\ waitAckJobs' = MapPut(waitAckJobs, id, jobHolder(NilHandle, job, FALSE))
        /\ last' = Step("IterPendingJobs.ok", {oldJobID}, FALSE, {id}, NoErr)
    /\ cur' = {}
    /\ UNCHANGED <<onlineJobs, jobsMu, live, dispatchErrs>>
    /\ QueryTrack
    /\ UNCHANGED notFsmVars

(* Variant of IterPendingJobsErr: the entry is deleted before err is looked at *)
IterPendingJobsErrDeletes ==
    /\ jobsMu = "IterPendingJobs"
    /\ \E oldJobID \in cur :
        /\ dispatchErrs' = dispatchErrs \cup {pendingJobs[oldJobID]}
        /\ pendingJobs' = MapDelete(pendingJobs, oldJobID)
        /\ last' = Step("IterPendingJobs", {oldJobID}, FALSE, {}, ErrDispatch)
    /\ cur' = {}
    /\ jobsMu' = "free"
    /\ UNCHANGED <<waitAckJobs, onlineJobs, metaID, live>>
    /\ QueryTrack
    /\ UNCHANGED notFsmVars

(* IterPendingJobs: dispatchJobFn returned an error; return err (deferred Unlock) *)
IterPendingJobsErr ==
    /\ jobsMu = "IterPendingJobs"
    /\ \E oldJobID \in cur :
        /\ dispatchErrs' = dispatchErrs \cup {pendingJobs[oldJobID]}
        /\ last' = Step("IterPendingJobs", {oldJobID}, FALSE, {}, ErrDispatch)
    /\ cur' = {}
    /\ jobsMu' = "free"
    /\ UNCHANGED <<maps, metaID, live>>
    /\ QueryTrack
    /\ UNCHANGED notFsmVars

(* IterPendingJobs: the range loop is over; return nil (deferred Unlock) *)
IterPendingJobsDone ==
    /\ jobsMu = "IterPendingJobs"
    /\ cur = {}
    /\ DOMAIN pendingJobs = {}
    /\ jobsMu' = "free"
    /\ last' = Step("IterPendingJobs", {}, FALSE, {}, NoErr)
    /\ UNCHANGED <<maps, metaID, cur, live, dispatchErrs>>
    /\ QueryTrack
    /\ UNCHANGED notFsmVars

(* IterWaitAckJobs: jobsMu.Lock() *)
IterWaitAckJobsLock ==
    /\ jobsMu = "free"
    /\ jobsMu' = "IterWaitAckJobs"
    /\ last' = Step("IterWaitAckJobs.Lock", {}, FALSE, {}, NoErr)
    /\ UNCHANGED <<maps, metaID, cur, live, dispatchErrs>>
    /\ QueryTrack
    /\ UNCHANGED notFsmVars

(* Variant of IterWaitAckJobsDispatch: the loop does not skip the entries
   whose addFromFailover is false *)
IterWaitAckJobsDispatchAny(id) ==
    /\ jobsMu = "IterWaitAckJobs"
    /\ cur = {}
    /\ id \in DOMAIN waitAckJobs
    /\ cur' = {id}
    /\ last' = Step("IterWaitAckJobs.dispatchJobFn", {id}, FALSE, {}, NoErr)
    /\ UNCHANGED <<maps, metaID, jobsMu, live, dispatchErrs>>
    /\ QueryTrack
    /\ UNCHANGED notFsmVars

(* IterWaitAckJobs: the range loop yields an entry with addFromFailover set
   (the others are skipped by continue) and dispatchJobFn(job.MasterMeta) is
   called *)
IterWaitAckJobsDispatch(id) ==
    /\ jobsMu = "IterWaitAckJobs"
    /\ cur = {}
    /\ id \in DOMAIN waitAckJobs
    /\ waitAckJobs[id].addFromFailover
    /\ cur' = {id}
    /\ last' = Step("IterWaitAckJobs.dispatchJobFn", {id}, FALSE, {}, NoErr)
    /\ UNCHANGED <<maps, metaID, jobsMu, live, dispatchErrs>>
    /\ QueryTrack
    /\ UNCHANGED notFsmVars

(* Variant of IterWaitAckJobsOk: addFromFailover is not cleared *)
IterWaitAckJobsOkKeepsFlag(newID) ==
    /\ jobsMu = "IterWaitAckJobs"
    /\ \E id \in cur :
        /\ UNCHANGED waitAckJobs
        /\ last' = Step("IterWaitAckJobs.ok", {id}, FALSE, {newID}, NoErr)
    /\ cur' = {}
    /\ UNCHANGED <<pendingJobs, onlineJobs, metaID, jobsMu, live, dispatchErrs>>
    /\ QueryTrack
    /\ UNCHANGED notFsmVars

(* IterWaitAckJobs: dispatchJobFn returned (newID, nil); the id is discarded *)
IterWaitAckJobsOk(newID) ==
    /\ jobsMu = "IterWaitAckJobs"
    /\ \E id \in cur :
        /\ waitAckJobs' = [waitAckJobs EXCEPT ![id].addFromFailover = FALSE]
        /\ last' = Step("IterWaitAckJobs.ok", {id}, FALSE, {newID}, NoErr)
    /\ cur' = {}
    /\ UNCHANGED <<pendingJobs, onlineJobs, metaID, jobsMu, live, dispatchErrs>>
    /\ QueryTrack
    /\ UNCHANGED notFsmVars

(* IterWaitAckJobs: dispatchJobFn returned an error; return err *)
IterWaitAckJobsErr ==
    /\ jobsMu = "IterWaitAckJobs"
    /\ \E id \in cur :
        /\ dispatchErrs' = dispatchErrs \cup {waitAckJobs[id].MasterMeta}
        /\ last' = Step("IterWaitAckJobs", {id}, FALSE, {}, ErrDispatch)
    /\ cur' = {}
    /\ jobsMu' = "free"
    /\ UNCHANGED <<maps, metaID, live>>
    /\ QueryTrack
    /\ UNCHANGED notFsmVars

(* IterWaitAckJobs: the range loop is over; return nil *)
IterWaitAckJobsDone ==
    /\ jobsMu = "IterWaitAckJobs"
    /\ cur = {}
    /\ \A id \in DOMAIN waitAckJobs : ~waitAckJobs[id].addFromFailover
    /\ jobsMu' = "free"
    /\ last' = Step("IterWaitAckJobs", {}, FALSE, {}, NoErr)
    /\ UNCHANGED <<maps, metaID, cur, live, dispatchErrs>>
    /\ QueryTrack
    /\ UNCHANGED notFsmVars

(* Variant of JobOnline: the online holder inherits addFromFailover *)
JobOnlineKeepsFlag(id) ==
    /\ jobsMu = "free"
    /\ IF id \in DOMAIN waitAckJobs
       THEN /\ onlineJobs' = MapPut(onlineJobs, id,
                     jobHolder(WorkerHandle(id), waitAckJobs[id].MasterMeta,
                               waitAckJobs[id].addFromFailover))
            /\ waitAckJobs' = MapDelete(waitAckJobs, id)
            /\ last' = Step("JobOnline", {id}, waitAckJobs[id].addFromFailover, {}, NoErr)
       ELSE /\ UNCHANGED <<onlineJobs, waitAckJobs>>
            /\ last' = Step("JobOnline", {id}, FALSE, {}, ErrWorkerNotFound)
    /\ UNCHANGED <<pendingJobs, metaID, jobsMu, cur, live, dispatchErrs>>
    /\ QueryTrack
    /\ UNCHANGED notFsmVars

(* Variant of JobOnline: the waitAck entry is not deleted *)
JobOnlineKeepsWaitAck(id) ==
    /\ jobsMu = "free"
    /\ IF id \in DOMAIN waitAckJobs
       THEN /\ onlineJobs' = MapPut(onlineJobs, id,
                     jobHolder(WorkerHandle(id), waitAckJobs[id].MasterMeta, FALSE))
            /\ UNCHANGED waitAckJobs
            /\ last' = Step("JobOnline", {id}, waitAckJobs[id].addFromFailover, {}, NoErr)
       ELSE /\ UNCHANGED <<onlineJobs, waitAckJobs>>
            /\ last' = Step("JobOnline", {id}, FALSE, {}, ErrWorkerNotFound)
    /\ UNCHANGED <<pendingJobs, metaID, jobsMu, cur, live, dispatchErrs>>
    /\ QueryTrack
    /\ UNCHANGED notFsmVars

(* Variant of JobOnline: an id that is already online is accepted silently *)
JobOnlineAcceptsOnline(id) ==
    /\ jobsMu = "free"
    /\ IF id \in DOMAIN waitAckJobs
       THEN /\ onlineJobs' = MapPut(onlineJobs, id,
                     jobHolder(WorkerHandle(id), waitAckJobs[id].MasterMeta, FALSE))
            /\ waitAckJobs' = MapDelete(waitAckJobs, id)
            /\ last' = Step("JobOnline", {id}, waitAckJobs[id].addFromFailover, {}, NoErr)
       ELSE /\ UNCHANGED <<onlineJobs, waitAckJobs>>
            /\ last' = Step("JobOnline", {id}, FALSE, {},
                            IF id \in DOMAIN onlineJobs THEN NoErr ELSE ErrWorkerNotFound)
    /\ UNCHANGED <<pendingJobs, metaID, jobsMu, cur, live, dispatchErrs>>
    /\ QueryTrack
    /\ UNCHANGED notFsmVars

(* JobOnline(worker), id = worker.ID() *)
JobOnline(id) ==
    /\ jobsMu = "free"
    /\ IF id \in DOMAIN waitAckJobs
       THEN /\ onlineJobs' = MapPut(onlineJobs, id,
                     jobHolder(WorkerHandle(id), waitAckJobs[id].MasterMeta, FALSE))
            /\ waitAckJobs' = MapDelete(waitAckJobs, id)
            /\ last' = Step("JobOnline", {id}, waitAckJobs[id].addFromFailover, {}, NoErr)
       ELSE /\ UNCHANGED <<onlineJobs, waitAckJobs>>
            /\ last' = Step("JobOnline", {id}, FALSE, {}, ErrWorkerNotFound)
    /\ UNCHANGED <<pendingJobs, metaID, jobsMu, cur, live, dispatchErrs>>
    /\ QueryTrack
    /\ UNCHANGED notFsmVars

(* Variant of JobOffline: an unknown worker's pending entry is dropped *)
JobOfflineDropsPending(id, needFailover) ==
    /\ jobsMu = "free"
    /\ IF id \in DOMAIN onlineJobs \cup DOMAIN waitAckJobs
       THEN LET job == IF id \in DOMAIN onlineJobs THEN onlineJobs[id] ELSE waitAckJobs[id] IN
            /\ last' = Step("JobOffline", {id}, needFailover, {}, NoErr)
            /\ IF id \in DOMAIN onlineJobs
               THEN /\ onlineJobs' = MapDelete(onlineJobs, id)
                    /\ UNCHANGED waitAckJobs
               ELSE /\ waitAckJobs' = MapDelete(waitAckJobs, id)
                    /\ UNCHANGED onlineJobs
            /\ IF needFailover
               THEN /\ pendingJobs' = MapPut(pendingJobs, id, job.MasterMeta)
                    /\ UNCHANGED live
               ELSE /\ UNCHANGED pendingJobs
                    /\ live' = live \ {job.MasterMeta}
       ELSE /\ last' = Step("JobOffline", {id}, needFailover, {}, WarnUnknownWorker)
            /\ pendingJobs' = IF needFailover THEN pendingJobs ELSE MapDelete(pendingJobs, id)
            /\ UNCHANGED <<waitAckJobs, onlineJobs, live>>
    /\ UNCHANGED <<metaID, jobsMu, cur, dispatchErrs>>
    /\ QueryTrack
    /\ UNCHANGED notFsmVars

(* JobOffline(worker, needFailover), id = worker.ID() *)
JobOffline(id, needFailover) ==
    /\ jobsMu = "free"
    /\ IF id \in DOMAIN onlineJobs \cup DOMAIN waitAckJobs
       THEN LET job == IF id \in DOMAIN onlineJobs THEN onlineJobs[id] ELSE waitAckJobs[id] IN
            /\ last' = Step("JobOffline", {id}, needFailover, {}, NoErr)
            /\ IF id \in DOMAIN onlineJobs
               THEN /\ onlineJobs' = MapDelete(onlineJobs, id)
                    /\ UNCHANGED waitAckJobs
               ELSE /\ waitAckJobs' = MapDelete(waitAckJobs, id)
                    /\ UNCHANGED onlineJobs
            /\ IF needFailover
               THEN /\ pendingJobs' = MapPut(pendingJobs, id, job.MasterMeta)
                    /\ UNCHANGED live
               ELSE /\ UNCHANGED pendingJobs
                    /\ live' = live \ {job.MasterMeta}
       ELSE /\ last' = Step("JobOffline", {id}, needFailover, {}, WarnUnknownWorker)
            /\ UNCHANGED <<maps, live>>
    /\ UNCHANGED <<metaID, jobsMu, cur, dispatchErrs>>
    /\ QueryTrack
    /\ UNCHANGED notFsmVars

(* Variant of JobDispatchFailed: the waitAck entry is not deleted *)
JobDispatchFailedKeepsWaitAck(id) ==
    /\ jobsMu = "free"
    /\ IF id \in DOMAIN waitAckJobs
       THEN /\ pendingJobs' = MapPut(pendingJobs, id, waitAckJobs[id].MasterMeta)
            /\ UNCHANGED waitAckJobs
            /\ last' = Step("JobDispatchFailed", {id}, FALSE, {}, NoErr)
       ELSE /\ UNCHANGED <<pendingJobs, waitAckJobs>>
            /\ last' = Step("JobDispatchFailed", {id}, FALSE, {}, ErrWorkerNotFound)
    /\ UNCHANGED <<onlineJobs, metaID, jobsMu, cur, live, dispatchErrs>>
    /\ QueryTrack
    /\ UNCHANGED notFsmVars

(* Variant of JobDispatchFailed: a worker id that is not in waitAckJobs
   fails the dispatch of some job that is *)
JobDispatchFailedAnyKey(id) ==
    /\ jobsMu = "free"
    /\ IF DOMAIN waitAckJobs # {}
       THEN LET k == IF id \in DOMAIN waitAckJobs
                       THEN id
                       ELSE CHOOSE x \in DOMAIN waitAckJobs : TRUE IN
            /\ pendingJobs' = MapPut(pendingJobs, k, waitAckJobs[k].MasterMeta)
            /\ waitAckJobs' = MapDelete(waitAckJobs, k)
            /\ last' = Step("JobDispatchFailed", {id}, FALSE, {}, NoErr)
       ELSE /\ UNCHANGED <<pendingJobs, waitAckJobs>>
            /\ last' = Step("JobDispatchFailed", {id}, FALSE, {}, ErrWorkerNotFound)
    /\ UNCHANGED <<onlineJobs, metaID, jobsMu, cur, live, dispatchErrs>>
    /\ QueryTrack
    /\ UNCHANGED notFsmVars

(* JobDispatchFailed(worker), id = worker.ID() *)
JobDispatchFailed(id) ==
    /\ jobsMu = "free"
    /\ IF id \in DOMAIN waitAckJobs
       THEN /\ pendingJobs' = MapPut(pendingJobs, id, waitAckJobs[id].MasterMeta)
            /\ waitAckJobs' = MapDelete(waitAckJobs, id)
            /\ last' = Step("JobDispatchFailed", {id}, FALSE, {}, NoErr)
       ELSE /\ UNCHANGED <<pendingJobs, waitAckJobs>>
            /\ last' = Step("JobDispatchFailed", {id}, FALSE, {}, ErrWorkerNotFound)
    /\ UNCHANGED <<onlineJobs, metaID, jobsMu, cur, live, dispatchErrs>>
    /\ QueryTrack
    /\ UNCHANGED notFsmVars

Next ==
    \/ \E id \in IDs, f \in BOOLEAN : JobDispatched(id, f)
    \/ IterPendingJobsLock
    \/ \E k \in IDs : IterPendingJobsDispatch(k)
    \/ \E id \in IDs : IterPendingJobsOk(id)
    \/ IterPendingJobsErr
    \/ IterPendingJobsDone
    \/ IterWaitAckJobsLock
    \/ \E id \in IDs : IterWaitAckJobsDispatch(id)
    \/ \E id \in IDs : IterWaitAckJobsOk(id)
    \/ IterWaitAckJobsErr
    \/ IterWaitAckJobsDone
    \/ \E id \in IDs : JobOnline(id)
    \/ \E id \in IDs, f \in BOOLEAN : JobOffline(id, f)
    \/ \E id \in IDs : JobDispatchFailed(id)

(* the Job FSM *)
Spec == Init /\ [][Next]_vars

(* Every entry is keyed by the ID field of the MasterMeta it holds, and no
   MasterMeta object is held by two entries. *)
TypeOK ==
    /\ DOMAIN pendingJobs \subseteq IDs
    /\ DOMAIN waitAckJobs \subseteq IDs
    /\ DOMAIN onlineJobs \subseteq IDs
    /\ \A id \in DOMAIN pendingJobs : metaID[pendingJobs[id]] = id
    /\ \A id \in DOMAIN waitAckJobs : metaID[waitAckJobs[id].MasterMeta] = id
    /\ \A id \in DOMAIN onlineJobs : metaID[onlineJobs[id].MasterMeta] = id
    /\ jobsMu \in {"free", "IterPendingJobs", "IterWaitAckJobs"}

----------------------------------------------------------------------------
(* Properties of the Job FSM *)

Held(id) == id \in DOMAIN pendingJobs \cup DOMAIN waitAckJobs \cup DOMAIN onlineJobs

HeldNext(id) == id \in DOMAIN pendingJobs' \cup DOMAIN waitAckJobs' \cup DOMAIN onlineJobs'

(* the number of maps that have id as a key *)
MapsWith(id) ==
    (IF id \in DOMAIN pendingJobs THEN 1 ELSE 0)
    + (IF id \in DOMAIN waitAckJobs THEN 1 ELSE 0)
    + (IF id \in DOMAIN onlineJobs THEN 1 ELSE 0)

(* the number of map entries that hold the MasterMeta object job *)
EntriesWith(job) ==
    Cardinality({id \in DOMAIN pendingJobs : pendingJobs[id] = job})
    + Cardinality({id \in DOMAIN waitAckJobs : waitAckJobs[id].MasterMeta = job})
    + Cardinality({id \in DOMAIN onlineJobs : onlineJobs[id].MasterMeta = job})

(* C1: after any sequence of FSM operations no master id is a key of more
   than one of pendingJobs, waitAckJobs and onlineJobs. *)
C1_AtMostOneMap == \A id \in IDs : MapsWith(id) <= 1

(* C2: no live job is lost: every job entered by JobDispatched and not removed
   by JobOffline(needFailover=false) is held by exactly one entry, and the
   three JobCounts add up to the number of live jobs. *)
C2_NoLiveJobLost ==
    /\ \A job \in live : EntriesWith(job) = 1
    /\ JobCount("pending") + JobCount("dispatched") + JobCount("online") = Cardinality(live)

(* C3: JobOnline for an id that is a key of waitAckJobs deletes that entry,
   stores a holder with the worker handle and the same MasterMeta under the
   same id in onlineJobs, changes nothing else and returns no error. *)
C3_JobOnlineMoves ==
    [][\A id \in IDs :
        (last'.op = "JobOnline" /\ last'.id = {id} /\ id \in DOMAIN waitAckJobs)
        => /\ waitAckJobs' = MapDelete(waitAckJobs, id)
           /\ onlineJobs' = MapPut(onlineJobs, id,
                  jobHolder(WorkerHandle(id), waitAckJobs[id].MasterMeta, FALSE))
           /\ pendingJobs' = pendingJobs
           /\ metaID' = metaID
           /\ last'.err = NoErr]_vars

(* a JobOnline has just moved a job to online while another job is pending *)
C3_Witness ==
    /\ last.op = "JobOnline"
    /\ last.err = NoErr
    /\ \E id \in last.id :
        /\ id \in DOMAIN onlineJobs
        /\ id \notin DOMAIN waitAckJobs
        /\ onlineJobs[id].WorkerHandle = WorkerHandle(id)
    /\ DOMAIN pendingJobs # {}

(* C4: JobOnline for an id that is not a key of waitAckJobs returns
   ErrWorkerNotFound and leaves the three maps unchanged, also when the id is
   in onlineJobs or in pendingJobs. *)
C4_JobOnlineNotFound ==
    [][\A id \in IDs :
        (last'.op = "JobOnline" /\ last'.id = {id} /\ id \notin DOMAIN waitAckJobs)
        => /\ last'.err = ErrWorkerNotFound
           /\ UNCHANGED <<maps, metaID>>]_vars

(* a JobOnline for an id that is already online has just been rejected *)
C4_Witness ==
    /\ last.op = "JobOnline"
    /\ last.err = ErrWorkerNotFound
    /\ \E id \in last.id : id \in DOMAIN onlineJobs /\ id \notin DOMAIN waitAckJobs

(* C5: JobOffline(needFailover=true) for an id held in onlineJobs or in
   waitAckJobs puts the same MasterMeta into pendingJobs under the same id,
   and afterwards the id is in pendingJobs and in no other map. *)
C5_JobOfflineFailover ==
    [][\A id \in IDs :
        (last'.op = "JobOffline" /\ last'.id = {id} /\ last'.flag
            /\ id \in DOMAIN onlineJobs \cup DOMAIN waitAckJobs)
        => LET job == IF id \in DOMAIN onlineJobs THEN onlineJobs[id] ELSE waitAckJobs[id] IN
           /\ id \in DOMAIN pendingJobs'
           /\ pendingJobs'[id] = job.MasterMeta
           /\ id \notin DOMAIN waitAckJobs'
           /\ id \notin DOMAIN onlineJobs']_vars

(* C6: JobOffline(needFailover=false) for an id held in onlineJobs or in
   waitAckJobs leaves the id in none of the three maps, and an id that is in
   no map stays in no map until JobDispatched enters it or dispatchJobFn
   returns it to IterPendingJobs. *)
C6_JobOfflineFinished ==
    [][\A id \in IDs :
        /\ (last'.op = "JobOffline" /\ last'.id = {id} /\ ~last'.flag
                /\ id \in DOMAIN onlineJobs \cup DOMAIN waitAckJobs)
           => ~HeldNext(id)
        /\ (~Held(id) /\ HeldNext(id))
           => \/ last'.op = "JobDispatched" /\ last'.id = {id}
              \/ last'.op = "IterPendingJobs.ok" /\ last'.ret = {id}]_vars

(* C7: JobOffline for an id that is in neither onlineJobs nor waitAckJobs
   changes none of the three maps, whatever needFailover is. *)
C7_JobOfflineUnknown ==
    [][\A id \in IDs :
        (last'.op = "JobOffline" /\ last'.id = {id}
            /\ id \notin DOMAIN onlineJobs \cup DOMAIN waitAckJobs)
        => UNCHANGED <<maps, metaID>>]_vars

(* a JobOffline(needFailover=false) for an id that is only pending has just
   been ignored *)
C7_Witness ==
    /\ last.op = "JobOffline"
    /\ last.err = WarnUnknownWorker
    /\ ~last.flag
    /\ \E id \in last.id : id \in DOMAIN pendingJobs

(* C8: JobDispatchFailed moves the job from waitAckJobs to pendingJobs under
   the same id with the same MasterMeta when the id is in waitAckJobs;
   otherwise it returns ErrWorkerNotFound and changes none of the maps. *)
C8_JobDispatchFailed ==
    [][\A id \in IDs :
        (last'.op = "JobDispatchFailed" /\ last'.id = {id})
        => IF id \in DOMAIN waitAckJobs
           THEN /\ waitAckJobs' = MapDelete(waitAckJobs, id)
                /\ pendingJobs' = MapPut(pendingJobs, id, waitAckJobs[id].MasterMeta)
                /\ onlineJobs' = onlineJobs
                /\ metaID' = metaID
                /\ last'.err = NoErr
           ELSE /\ last'.err = ErrWorkerNotFound
                /\ UNCHANGED <<maps, metaID>>]_vars

(* a JobDispatchFailed has just moved a job back to pending while another
   job is online *)
C8_Witness ==
    /\ last.op = "JobDispatchFailed"
    /\ last.err = NoErr
    /\ \E id \in last.id : id \in DOMAIN pendingJobs /\ id \notin DOMAIN waitAckJobs
    /\ DOMAIN onlineJobs # {}

(* C9: when dispatchJobFn returns (id, nil) for the pending job under
   oldJobID, IterPendingJobs deletes pendingJobs[oldJobID], sets the job's
   MasterMeta.ID to id and stores the job in waitAckJobs under id with
   addFromFailover false and no worker handle. *)
C9_IterPendingDispatched ==
    [][\A oldJobID \in IDs, id \in IDs :
        (last'.op = "IterPendingJobs.ok" /\ last'.id = {oldJobID} /\ last'.ret = {id})
        => LET job == pendingJobs[oldJobID] IN
           /\ cur = {oldJobID}
           /\ oldJobID \notin DOMAIN pendingJobs'
           /\ metaID'[job] = id
           /\ id \in DOMAIN waitAckJobs'
           /\ waitAckJobs'[id] = jobHolder(NilHandle, job, FALSE)]_vars

(* a pending job has just been dispatched under an id other than its old one *)
C9_Witness ==
    /\ last.op = "IterPendingJobs.ok"
    /\ \E oldJobID \in last.id, id \in last.ret :
        /\ oldJobID # id
        /\ id \in DOMAIN waitAckJobs
        /\ metaID[waitAckJobs[id].MasterMeta] = id
        /\ ~Held(oldJobID)

(* C10: when dispatchJobFn returns an error for the pending job under
   oldJobID, IterPendingJobs returns the error at once: the job stays in
   pendingJobs under oldJobID with its MasterMeta unchanged, no waitAck entry
   holds it, and the job is still there for a later IterPendingJobs call to
   hand to dispatchJobFn. *)
C10_IterPendingDispatchError ==
    /\ [][\A oldJobID \in IDs :
            (jobsMu = "IterPendingJobs" /\ cur = {oldJobID} /\ last'.err = ErrDispatch)
            => /\ UNCHANGED <<maps, metaID>>
               /\ oldJobID \in DOMAIN pendingJobs'
               /\ \A id \in DOMAIN waitAckJobs' :
                    waitAckJobs'[id].MasterMeta # pendingJobs[oldJobID]
               /\ last'.op = "IterPendingJobs"
               /\ jobsMu' = "free"]_vars
    /\ [](\A oldJobID \in DOMAIN pendingJobs :
            (pendingJobs[oldJobID] \in dispatchErrs
                /\ jobsMu = "IterPendingJobs" /\ cur = {})
            => ENABLED IterPendingJobsDispatch(oldJobID))

(* dispatchJobFn is being called again for a job it failed for earlier *)
C10_Witness ==
    /\ jobsMu = "IterPendingJobs"
    /\ \E oldJobID \in cur : pendingJobs[oldJobID] \in dispatchErrs

(* a waitAck entry with addFromFailover set holds the MasterMeta object job *)
FailoverEntry(job) ==
    \E id \in DOMAIN waitAckJobs :
        waitAckJobs[id].MasterMeta = job /\ waitAckJobs[id].addFromFailover

FailoverEntryNext(job) ==
    \E id \in DOMAIN waitAckJobs' :
        waitAckJobs'[id].MasterMeta = job /\ waitAckJobs'[id].addFromFailover

(* C11, as claimed: addFromFailover is cleared as soon as dispatchJobFn has
   been called for a failover entry, whether the call succeeds or fails, so
   IterWaitAckJobs never calls dispatchJobFn for an entry it has already
   called it for. *)
C11_ClearedWhenCalled ==
    [][\A id \in IDs :
        /\ (jobsMu = "IterWaitAckJobs" /\ cur = {id} /\ cur' = {})
           => (id \in DOMAIN waitAckJobs' /\ ~waitAckJobs'[id].addFromFailover)
        /\ (last'.op = "IterWaitAckJobs.dispatchJobFn" /\ last'.id = {id})
           => waitAckJobs[id].MasterMeta \notin dispatchErrs]_vars

(* C11, amended: addFromFailover is cleared when dispatchJobFn returns
   without error, and an entry whose flag is clear is never handed to
   dispatchJobFn by IterWaitAckJobs nor gets the flag back; when
   dispatchJobFn fails the entry is left as it was, flag set. *)
C11_ClearedOnSuccess ==
    [][\A id \in IDs :
        /\ (last'.op = "IterWaitAckJobs.ok" /\ last'.id = {id})
           => /\ waitAckJobs[id].addFromFailover
              /\ waitAckJobs' = [waitAckJobs EXCEPT ![id].addFromFailover = FALSE]
        /\ (jobsMu = "IterWaitAckJobs" /\ cur = {id} /\ last'.err = ErrDispatch)
           => /\ waitAckJobs' = waitAckJobs
              /\ waitAckJobs'[id].addFromFailover
        /\ (last'.op = "IterWaitAckJobs.dispatchJobFn" /\ last'.id = {id})
           => waitAckJobs[id].addFromFailover
        /\ (/\ id \in DOMAIN waitAckJobs /\ ~waitAckJobs[id].addFromFailover
            /\ id \in DOMAIN waitAckJobs'
            /\ waitAckJobs'[id].MasterMeta = waitAckJobs[id].MasterMeta)
           => ~waitAckJobs'[id].addFromFailover]_vars

(* IterWaitAckJobs is calling dispatchJobFn for a failover entry for which
   dispatchJobFn has failed before *)
C11_Witness ==
    /\ jobsMu = "IterWaitAckJobs"
    /\ \E id \in cur :
        /\ waitAckJobs[id].addFromFailover
        /\ waitAckJobs[id].MasterMeta \in dispatchErrs

(* C12: a job entered with addFromFailover = true that gets JobOnline while
   its flag is still set moves from waitAck to online, its online holder has
   addFromFailover = false, and a job that is not held by a failover entry
   is never handed to dispatchJobFn by IterWaitAckJobs and never becomes a
   failover entry again. *)
C12_FailoverOnlineNoRedispatch ==
    /\ [](\A id \in DOMAIN onlineJobs : ~onlineJobs[id].addFromFailover)
    /\ [][\A id \in IDs :
            (last'.op = "JobOnline" /\ last'.id = {id} /\ id \in DOMAIN waitAckJobs
                /\ waitAckJobs[id].addFromFailover)
            => /\ id \notin DOMAIN waitAckJobs'
               /\ id \in DOMAIN onlineJobs'
               /\ onlineJobs'[id].MasterMeta = waitAckJobs[id].MasterMeta
               /\ ~FailoverEntryNext(waitAckJobs[id].MasterMeta)]_vars
    /\ [][\A job \in 1..Len(metaID) :
            ~FailoverEntry(job)
            => /\ ~FailoverEntryNext(job)
               /\ ~(/\ last'.op = "IterWaitAckJobs.dispatchJobFn"
                    /\ jobsMu = "IterWaitAckJobs" /\ cur = {}
                    /\ \E id \in last'.id : waitAckJobs[id].MasterMeta = job)]_vars

(* JobOnline has just moved a job whose addFromFailover was still set *)
C12_Witness ==
    /\ last.op = "JobOnline"
    /\ last.err = NoErr
    /\ last.flag
    /\ \E id \in last.id :
        /\ id \in DOMAIN onlineJobs
        /\ ~onlineJobs[id].addFromFailover
        /\ id \notin DOMAIN waitAckJobs

(* C13: entering an id that is already held by the FSM is rejected with an
   error and leaves the three maps unchanged. *)
C13_DuplicateRejected ==
    [][\A id \in IDs :
        (last'.op = "JobDispatched" /\ last'.id = {id} /\ Held(id))
        => /\ last'.err # NoErr
           /\ UNCHANGED <<maps, metaID>>]_vars

(* C14: dispatchJobFn never runs while jobsMu is held, so no FSM operation
   is blocked on jobsMu for the duration of a dispatch call. *)
C14_NoDispatchUnderLock == cur # {} => jobsMu = "free"

----------------------------------------------------------------------------
(* Part 2: the executor runtime *)

(* what a runtime step reports: the step and the container it was about *)
RtStep(op, task) == [op |-> op, task |-> task]

(* Variant of push: the container is put at the head of the queue *)
pushFront(q, x) == <<x>> \o q

(* queue.push: q.tasks = append(q.tasks, t) *)
push(q, x) == Append(q, x)

(* queue.pop, for a queue that is not empty: the task returned and the
   q.tasks left *)
popTask(q) == q[1]

popRest(q) == Tail(q)

(* taskContainer.Poll begins: the wakes that arrived before it are consumed *)
pollBegin(x) == [woken EXCEPT ![x] = FALSE]

(* taskContainer.tryBlock: the container claims its blocked slot unless a
   wake arrived since its Poll started *)
tryBlock(x) == ~woken[x]

(* taskContainer.setRunnable *)
setRunnable(x) == [runnable EXCEPT ![x] = "Runnable"]

(* Submit(task): a new container enters the back of the queue, Runnable *)
Submit(x) ==
    /\ runnable[x] = "none"
    /\ runnable' = setRunnable(x)
    /\ tasks' = push(tasks, x)
    /\ rtLast' = RtStep("Submit", {x})
    /\ UNCHANGED <<ctxDone, pc, t, pollStatus, woken, readyTasks>>
    /\ UNCHANGED notRtVars

(* the event source of container x wakes it: a parked container becomes
   Runnable and goes back to the queue, atomically; for a container that is
   not parked the wake is remembered until its next Poll begins *)
Wake(x) ==
    /\ runnable[x] # "none"
    /\ IF runnable[x] = "Blocked"
       THEN /\ runnable' = setRunnable(x)
            /\ tasks' = push(tasks, x)
            /\ UNCHANGED woken
       ELSE /\ woken' = [woken EXCEPT ![x] = TRUE]
            /\ UNCHANGED <<runnable, tasks>>
    /\ rtLast' = RtStep("Wake", {x})
    /\ UNCHANGED <<ctxDone, pc, t, pollStatus, readyTasks>>
    /\ UNCHANGED notRtVars

(* the caller cancels the ctx it gave to Run *)
Cancel ==
    /\ ~ctxDone
    /\ ctxDone' = TRUE
    /\ rtLast' = RtStep("Cancel", {})
    /\ UNCHANGED <<tasks, pc, t, pollStatus, runnable, woken, readyTasks>>
    /\ UNCHANGED notRtVars

(* Run: select, case <-ctx.Done(): return *)
RunReturn ==
    /\ pc = "select"
    /\ ctxDone
    /\ pc' = "returned"
    /\ rtLast' = RtStep("return", {})
    /\ UNCHANGED <<tasks, ctxDone, t, pollStatus, runnable, woken, readyTasks>>
    /\ UNCHANGED notRtVars

(* Run: select, default *)
RunDefault ==
    /\ pc = "select"
    /\ ~ctxDone
    /\ pc' = "pop"
    /\ rtLast' = RtStep("default", {})
    /\ UNCHANGED <<tasks, ctxDone, t, pollStatus, runnable, woken, readyTasks>>
    /\ UNCHANGED notRtVars

(* Variant of RunIdle: Run returns when the queue is empty *)
RunIdleReturns ==
    /\ pc = "pop"
    /\ tasks = << >>
    /\ pc' = "returned"
    /\ rtLast' = RtStep("idle", {})
    /\ UNCHANGED <<tasks, ctxDone, t, pollStatus, runnable, woken, readyTasks>>
    /\ UNCHANGED notRtVars

(* Run: t := s.q.pop() is nil: idle, continue *)
RunIdle ==
    /\ pc = "pop"
    /\ tasks = << >>
    /\ pc' = "select"
    /\ rtLast' = RtStep("idle", {})
    /\ UNCHANGED <<tasks, ctxDone, t, pollStatus, runnable, woken, readyTasks>>
    /\ UNCHANGED notRtVars

(* Variant of RunPop: pop returns the head without removing it *)
RunPopKeepsHead ==
    /\ pc = "pop"
    /\ tasks # << >>
    /\ t' = {popTask(tasks)}
    /\ woken' = pollBegin(popTask(tasks))
    /\ pc' = "Poll"
    /\ rtLast' = RtStep("pop", {popTask(tasks)})
    /\ UNCHANGED <<tasks, ctxDone, pollStatus, runnable, readyTasks>>
    /\ UNCHANGED notRtVars

(* Run: t := s.q.pop() is a container; t.Poll() is called *)
RunPop ==
    /\ pc = "pop"
    /\ tasks # << >>
    /\ t' = {popTask(tasks)}
    /\ tasks' = popRest(tasks)
    /\ woken' = pollBegin(popTask(tasks))
    /\ pc' = "Poll"
    /\ rtLast' = RtStep("pop", {popTask(tasks)})
    /\ UNCHANGED <<ctxDone, pollStatus, runnable, readyTasks>>
    /\ UNCHANGED notRtVars

(* Run: status := t.Poll() returns; what it returns is the task's business *)
RunPoll(s) ==
    /\ pc = "Poll"
    /\ pollStatus' = s
    /\ readyTasks' = IF s = "Ready" THEN readyTasks \cup t ELSE readyTasks
    /\ pc' = "status"
    /\ rtLast' = RtStep("Poll", t)
    /\ UNCHANGED <<tasks, ctxDone, t, runnable, woken>>
    /\ UNCHANGED notRtVars

(* Variant of RunTryBlockOk: the continue is missing *)
RunTryBlockOkFallsThrough ==
    /\ pc = "status"
    /\ pollStatus = "Blocked"
    /\ \E x \in t :
        /\ tryBlock(x)
        /\ runnable' = [runnable EXCEPT ![x] = "Blocked"]
        /\ rtLast' = RtStep("tryBlock true", {x})
    /\ pc' = "setRunnable"
    /\ UNCHANGED <<tasks, ctxDone, t, pollStatus, woken, readyTasks>>
    /\ UNCHANGED notRtVars

(* Run: status == Blocked and t.tryBlock() is true: the container is parked;
   continue *)
RunTryBlockOk ==
    /\ pc = "status"
    /\ pollStatus = "Blocked"
    /\ \E x \in t :
        /\ tryBlock(x)
        /\ runnable' = [runnable EXCEPT ![x] = "Blocked"]
        /\ rtLast' = RtStep("tryBlock true", {x})
    /\ t' = {}
    /\ pc' = "select"
    /\ UNCHANGED <<tasks, ctxDone, pollStatus, woken, readyTasks>>
    /\ UNCHANGED notRtVars

(* Variant of RunTryBlockFail: the result of tryBlock is ignored; continue *)
RunTryBlockIgnored ==
    /\ pc = "status"
    /\ pollStatus = "Blocked"
    /\ \E x \in t :
        /\ ~tryBlock(x)
        /\ rtLast' = RtStep("tryBlock false", {x})
    /\ t' = {}
    /\ pc' = "select"
    /\ UNCHANGED <<tasks, ctxDone, pollStatus, runnable, woken, readyTasks>>
    /\ UNCHANGED notRtVars

(* Run: status == Blocked and t.tryBlock() is false: a wake raced *)
RunTryBlockFail ==
    /\ pc = "status"
    /\ pollStatus = "Blocked"
    /\ \E x \in t :
        /\ ~tryBlock(x)
        /\ rtLast' = RtStep("tryBlock false", {x})
    /\ pc' = "setRunnable"
    /\ UNCHANGED <<tasks, ctxDone, t, pollStatus, runnable, woken, readyTasks>>
    /\ UNCHANGED notRtVars

(* Run: status is not Blocked (Ready, Pending or anything else) *)
RunNotBlocked ==
    /\ pc = "status"
    /\ pollStatus # "Blocked"
    /\ pc' = "setRunnable"
    /\ rtLast' = RtStep("not Blocked", t)
    /\ UNCHANGED <<tasks, ctxDone, t, pollStatus, runnable, woken, readyTasks>>
    /\ UNCHANGED notRtVars

(* Run: t.setRunnable() *)
RunSetRunnable ==
    /\ pc = "setRunnable"
    /\ \E x \in t : runnable' = setRunnable(x)
    /\ pc' = "push"
    /\ rtLast' = RtStep("setRunnable", t)
    /\ UNCHANGED <<tasks, ctxDone, t, pollStatus, woken, readyTasks>>
    /\ UNCHANGED notRtVars

(* Run: s.q.push(t) *)
RunPush ==
    /\ pc = "push"
    /\ \E x \in t : tasks' = push(tasks, x)
    /\ t' = {}
    /\ pc' = "select"
    /\ rtLast' = RtStep("push", t)
    /\ UNCHANGED <<ctxDone, pollStatus, runnable, woken, readyTasks>>
    /\ UNCHANGED notRtVars

RtNext ==
    \/ \E x \in Tasks : Submit(x)
    \/ \E x \in Tasks : Wake(x)
    \/ Cancel
    \/ RunReturn
    \/ RunDefault
    \/ RunIdle
    \/ RunPop
    \/ \E s \in {"Ready", "Pending", "Blocked"} : RunPoll(s)
    \/ RunTryBlockOk
    \/ RunTryBlockFail
    \/ RunNotBlocked
    \/ RunSetRunnable
    \/ RunPush

(* the executor runtime *)
SpecRt == Init /\ [][RtNext]_vars

----------------------------------------------------------------------------
(* Properties of the executor runtime, checked under SpecRt *)

InQueue(x) == \E i \in 1..Len(tasks) : tasks[i] = x

Occurrences(x) == Cardinality({i \in 1..Len(tasks) : tasks[i] = x})

(* the queue only grew at its tail in this step *)
QueueExtended == /\ Len(tasks') >= Len(tasks)
                 /\ \A i \in 1..Len(tasks) : tasks'[i] = tasks[i]

(* C15: a container whose Poll returned Ready is dropped: it is never in the
   queue again and Poll is never called on it again. *)
C15_ReadyDropped ==
    \A x \in readyTasks : /\ ~InQueue(x)
                          /\ ~(x \in t /\ pc = "Poll")

(* C16: no wake is lost. Every submitted container is in the queue, held by
   Run, or parked as Blocked with no wake issued since its Poll began; none
   is parked with a wake issued and absent from the queue. When tryBlock
   fails Run goes on to setRunnable and push, and a wake of a parked
   container puts it into the queue. *)
C16_NoLostWake ==
    /\ [](\A x \in Tasks :
            /\ runnable[x] # "none" =>
                 \/ InQueue(x)
                 \/ x \in t
                 \/ (runnable[x] = "Blocked" /\ ~woken[x])
            /\ ~(runnable[x] = "Blocked" /\ woken[x] /\ ~InQueue(x)))
    /\ [][/\ rtLast'.op = "tryBlock false" =>
                pc' = "setRunnable" /\ t' = t /\ t # {}
          /\ \A x \in Tasks :
                runnable[x] = "Blocked" /\ runnable'[x] # "Blocked" =>
                    runnable'[x] = "Runnable" /\ tasks' = Append(tasks, x)]_vars

(* a wake raced with tryBlock: Poll returned Blocked, the wake arrived,
   tryBlock failed and Run pushed the container back *)
C16_Witness ==
    /\ rtLast.op = "push"
    /\ pollStatus = "Blocked"
    /\ \E x \in rtLast.task : woken[x] /\ InQueue(x)

(* C17: after a Poll that returned Pending, Run sets the container Runnable
   and pushes it to the tail of the queue; a pop takes the head and moves
   every other container one place forward, and no other step reorders or
   removes queued containers, so the container at place i is polled by the
   i-th pop from now. *)
C17_Fifo ==
    [][/\ rtLast'.op = "not Blocked" => pc' = "setRunnable" /\ t' = t
       /\ rtLast'.op = "setRunnable" => pc' = "push" /\ t' = t
       /\ rtLast'.op = "push" => \E x \in t : tasks' = Append(tasks, x)
       /\ rtLast'.op = "pop" =>
            /\ tasks # << >>
            /\ t' = {tasks[1]}
            /\ pc' = "Poll"
            /\ Len(tasks') = Len(tasks) - 1
            /\ \A i \in 2..Len(tasks) : tasks'[i - 1] = tasks[i]
       /\ rtLast'.op # "pop" => QueueExtended]_vars

(* a Pending container was pushed behind another queued container *)
C17_Witness ==
    /\ rtLast.op = "push"
    /\ pollStatus = "Pending"
    /\ Len(tasks) = 2
    /\ tasks[2] \in rtLast.task
    /\ tasks[1] # tasks[2]

(* C18: every container in the queue is Runnable; a Blocked container is
   never in the queue. *)
C18_QueuedRunnable ==
    \A i \in 1..Len(tasks) : runnable[tasks[i]] = "Runnable"

(* a parked container was woken back into the queue while another one is
   parked *)
C18_Witness ==
    \E x, y \in Tasks :
        /\ rtLast = RtStep("Wake", {x})
        /\ ~woken[x]
        /\ InQueue(x)
        /\ runnable[y] = "Blocked"

(* C19: a container is in at most one of: held by Run (being polled), in the
   queue, parked as Blocked; it is in the queue at most once; Run holds at
   most one container. *)
C19_OnePlace ==
    /\ Cardinality(t) <= 1
    /\ \A x \in Tasks :
         Occurrences(x) + (IF x \in t THEN 1 ELSE 0)
             + (IF runnable[x] = "Blocked" THEN 1 ELSE 0) <= 1

(* a wake raced with tryBlock while another container is queued *)
C19_Witness ==
    /\ pc = "setRunnable"
    /\ pollStatus = "Blocked"
    /\ \E x \in t : woken[x]
    /\ Len(tasks) = 1

(* C20: Run has returned only if ctx is cancelled, and then holds no
   container; at a loop head with ctx cancelled the next step of Run is the
   return; the return leaves the queue as it is, and after it nothing is
   popped or polled. *)
C20_ReturnOnCancel ==
    /\ [](pc = "returned" => ctxDone /\ t = {})
    /\ [][/\ pc = "select" /\ ctxDone /\ pc' # pc => pc' = "returned"
          /\ pc' = "returned" /\ pc # "returned" =>
                pc = "select" /\ ctxDone /\ tasks' = tasks
          /\ pc = "returned" =>
                pc' = "returned" /\ t' = {} /\ QueueExtended
                   /\ pollStatus' = pollStatus]_vars

(* Run returned after a Poll, with a container left in the queue *)
C20_Witness ==
    /\ rtLast.op = "return"
    /\ pc = "returned"
    /\ pollStatus # "none"
    /\ tasks # << >>

----------------------------------------------------------------------------
(* Part 3: the worker implementations *)

ErrUpdateStatusTryAgain == "ErrWorkerUpdateStatusTryAgain"
ErrUpdateStatus == "UpdateStatus error"
ErrExit == "Exit error"
ErrRecv == "Receive error"
ErrSend == "Send error"
ErrCtx == "context canceled"

Min(a, b) == IF a < b THEN a ELSE b

(* Variant of limAdvance: the limiter has no limit (rate.Inf) *)
limAdvanceInf(tm) == UnitsPerSecond

(* rate.Limiter of rate.Every(time.Second) and burst 1: the tokens it has at
   time tm, one token being UnitsPerSecond units; a new limiter is full *)
limAdvance(tm) ==
    IF limLast = {} THEN UnitsPerSecond
    ELSE Min(UnitsPerSecond, tokens + (tm - (CHOOSE l \in limLast : TRUE)))

(* statusRateLimiter.Allow() at the current time *)
Allow == limAdvance(now) >= UnitsPerSecond

(* time passes *)
Advance ==
    /\ impl = "cvsTask"
    /\ now < MaxTime
    /\ now' = now + 1
    /\ wkLast' = WkStep("Advance", NoErr)
    /\ UNCHANGED <<impl, tokens, limLast, updates, exits, code, runError, cancelFn,
                   taskCtxDone, buffer, bufClosed, recvd, reply, pcRecv, kv, pcSend,
                   written, counter, dummyVars>>
    /\ UNCHANGED notWkVars

(* NewCvsTask *)
NewCvsTask ==
    /\ impl = "none"
    /\ impl' = "cvsTask"
    /\ buffer' = << >>
    /\ tokens' = 0
    /\ limLast' = {}
    /\ counter' = 0
    /\ wkLast' = WkStep("NewCvsTask", NoErr)
    /\ UNCHANGED <<now, updates, exits, code, runError, cancelFn, taskCtxDone, bufClosed,
                   recvd, reply, pcRecv, kv, pcSend, written, dummyVars>>
    /\ UNCHANGED notWkVars

(* Variant of CvsInitImpl: the status code is not set before the stages start *)
CvsInitImplNoStatus ==
    /\ impl = "cvsTask"
    /\ ~cancelFn
    /\ cancelFn' = TRUE
    /\ pcRecv' = "Dial"
    /\ pcSend' = "Dial"
    /\ wkLast' = WkStep("InitImpl", NoErr)
    /\ UNCHANGED <<impl, now, tokens, limLast, updates, exits, code, runError, taskCtxDone,
                   buffer, bufClosed, recvd, reply, kv, written, counter, dummyVars>>
    /\ UNCHANGED notWkVars

(* cvsTask.InitImpl, called once by the framework: the status code becomes
   Normal, the ctx is derived, and the two stages start *)
CvsInitImpl ==
    /\ impl = "cvsTask"
    /\ ~cancelFn
    /\ code' = "Normal"
    /\ cancelFn' = TRUE
    /\ pcRecv' = "Dial"
    /\ pcSend' = "Dial"
    /\ wkLast' = WkStep("InitImpl", NoErr)
    /\ UNCHANGED <<impl, now, tokens, limLast, updates, exits, runError, taskCtxDone,
                   buffer, bufClosed, recvd, reply, kv, written, counter, dummyVars>>
    /\ UNCHANGED notWkVars

(* cvsTask.Tick; us is what UpdateStatus returns and ex what Exit returns *)
CvsTick(us, ex) ==
    /\ impl = "cvsTask"
    /\ IF Allow
       THEN /\ tokens' = limAdvance(now) - UnitsPerSecond
            /\ limLast' = {now}
            /\ updates' = Append(updates, now)
            /\ wkLast' = WkStep("Tick.UpdateStatus",
                                IF us = ErrUpdateStatusTryAgain THEN NoErr ELSE us)
            /\ UNCHANGED exits
       ELSE /\ IF code \in {"Finished", "Error"}
               THEN /\ exits' = exits \cup {<<code, runError>>}
                    /\ wkLast' = WkStep("Tick.Exit", ex)
               ELSE /\ wkLast' = WkStep("Tick", NoErr)
                    /\ UNCHANGED exits
            /\ UNCHANGED <<tokens, limLast, updates>>
    /\ UNCHANGED <<impl, now, code, runError, cancelFn, taskCtxDone, buffer, bufClosed,
                   recvd, reply, pcRecv, kv, pcSend, written, counter, dummyVars>>
    /\ UNCHANGED notWkVars

(* Variant of CvsCloseImpl: cancelFn is called without the nil check *)
CvsCloseImplNoNilCheck ==
    /\ impl = "cvsTask"
    /\ taskCtxDone' = (taskCtxDone \/ cancelFn)
    /\ wkLast' = WkStep("CloseImpl", IF cancelFn THEN NoErr ELSE "nil pointer dereference")
    /\ UNCHANGED <<impl, now, tokens, limLast, updates, exits, code, runError, cancelFn,
                   buffer, bufClosed, recvd, reply, pcRecv, kv, pcSend, written, counter,
                   dummyVars>>
    /\ UNCHANGED notWkVars

(* cvsTask.CloseImpl *)
CvsCloseImpl ==
    /\ impl = "cvsTask"
    /\ taskCtxDone' = (taskCtxDone \/ cancelFn)
    /\ wkLast' = WkStep("CloseImpl", NoErr)
    /\ UNCHANGED <<impl, now, tokens, limLast, updates, exits, code, runError, cancelFn,
                   buffer, bufClosed, recvd, reply, pcRecv, kv, pcSend, written, counter,
                   dummyVars>>
    /\ UNCHANGED notWkVars

(* Receive: grpc.Dial(task.SrcHost); ok is whether it succeeded *)
RecvDial ==
    /\ pcRecv = "Dial"
    /\ \E ok \in BOOLEAN :
        /\ pcRecv' = IF ok THEN "ReadLines" ELSE "setRunError"
        /\ wkLast' = WkStep("Receive.Dial", IF ok THEN NoErr ELSE ErrRecv)
    /\ UNCHANGED <<impl, now, tokens, limLast, updates, exits, code, runError,
                   cancelFn, taskCtxDone, buffer, bufClosed, recvd, reply, kv, pcSend,
                   written, counter, dummyVars>>
    /\ UNCHANGED notWkVars

(* Receive: client.ReadLines(ctx, ...) *)
RecvReadLines ==
    /\ pcRecv = "ReadLines"
    /\ \E ok \in BOOLEAN :
        /\ pcRecv' = IF ok THEN "Recv" ELSE "setRunError"
        /\ wkLast' = WkStep("Receive.ReadLines", IF ok THEN NoErr ELSE ErrRecv)
    /\ UNCHANGED <<impl, now, tokens, limLast, updates, exits, code, runError,
                   cancelFn, taskCtxDone, buffer, bufClosed, recvd, reply, kv, pcSend,
                   written, counter, dummyVars>>
    /\ UNCHANGED notWkVars

(* Receive: reader.Recv() returns the next pair of upstream *)
RecvRecvPair ==
    /\ pcRecv = "Recv"
    /\ recvd < MaxPairs
    /\ recvd' = recvd + 1
    /\ reply' = {recvd + 1}
    /\ pcRecv' = "select"
    /\ wkLast' = WkStep("Receive.Recv", NoErr)
    /\ UNCHANGED <<impl, now, tokens, limLast, updates, exits, code, runError,
                   cancelFn, taskCtxDone, buffer, bufClosed, kv, pcSend, written,
                   counter, dummyVars>>
    /\ UNCHANGED notWkVars

(* Receive: reader.Recv() returns IsEof: close(task.buffer), break, return nil *)
RecvRecvEof ==
    /\ pcRecv = "Recv"
    /\ bufClosed' = TRUE
    /\ pcRecv' = "done"
    /\ wkLast' = WkStep("Receive.eof", NoErr)
    /\ UNCHANGED <<impl, now, tokens, limLast, updates, exits, code, runError,
                   cancelFn, taskCtxDone, buffer, recvd, reply, kv, pcSend, written,
                   counter, dummyVars>>
    /\ UNCHANGED notWkVars

(* Receive: reader.Recv() returns an error: task.isEOF is never set, so
   task.cancelFn() is called; return err *)
RecvRecvErr ==
    /\ pcRecv = "Recv"
    /\ taskCtxDone' = TRUE
    /\ pcRecv' = "setRunError"
    /\ wkLast' = WkStep("Receive.Recv", ErrRecv)
    /\ UNCHANGED <<impl, now, tokens, limLast, updates, exits, code, runError,
                   cancelFn, buffer, bufClosed, recvd, reply, kv, pcSend, written,
                   counter, dummyVars>>
    /\ UNCHANGED notWkVars

(* Variant of RecvSelectSend: when the buffer is full the pair is dropped *)
RecvSelectDropsWhenFull ==
    /\ pcRecv = "select"
    /\ buffer' = IF Len(buffer) < BUFFERSIZE
                 THEN Append(buffer, CHOOSE x \in reply : TRUE)
                 ELSE buffer
    /\ reply' = {}
    /\ pcRecv' = "Recv"
    /\ wkLast' = WkStep("Receive.send", NoErr)
    /\ UNCHANGED <<impl, now, tokens, limLast, updates, exits, code, runError,
                   cancelFn, taskCtxDone, bufClosed, recvd, kv, pcSend, written,
                   counter, dummyVars>>
    /\ UNCHANGED notWkVars

(* Receive: select, case task.buffer <- strPair{...}: possible when the
   buffer is not full *)
RecvSelectSend ==
    /\ pcRecv = "select"
    /\ Len(buffer) < BUFFERSIZE
    /\ buffer' = Append(buffer, CHOOSE x \in reply : TRUE)
    /\ reply' = {}
    /\ pcRecv' = "Recv"
    /\ wkLast' = WkStep("Receive.send", NoErr)
    /\ UNCHANGED <<impl, now, tokens, limLast, updates, exits, code, runError,
                   cancelFn, taskCtxDone, bufClosed, recvd, kv, pcSend, written,
                   counter, dummyVars>>
    /\ UNCHANGED notWkVars

(* Receive: select, case <-ctx.Done(): return nil *)
RecvSelectDone ==
    /\ pcRecv = "select"
    /\ taskCtxDone
    /\ pcRecv' = "done"
    /\ wkLast' = WkStep("Receive.ctx.Done", NoErr)
    /\ UNCHANGED <<impl, now, tokens, limLast, updates, exits, code, runError,
                   cancelFn, taskCtxDone, buffer, bufClosed, recvd, reply, kv, pcSend,
                   written, counter, dummyVars>>
    /\ UNCHANGED notWkVars

(* InitImpl, first goroutine: Receive returned err, task.setRunError(err) *)
RecvSetRunError ==
    /\ pcRecv = "setRunError"
    /\ runError' = ErrRecv
    /\ pcRecv' = "setStatusCode"
    /\ wkLast' = WkStep("Receive.setRunError", ErrRecv)
    /\ UNCHANGED <<impl, now, tokens, limLast, updates, exits, code, cancelFn,
                   taskCtxDone, buffer, bufClosed, recvd, reply, kv, pcSend, written,
                   counter, dummyVars>>
    /\ UNCHANGED notWkVars

(* InitImpl, first goroutine: task.setStatusCode(lib.WorkerStatusError) *)
RecvSetStatusCode ==
    /\ pcRecv = "setStatusCode"
    /\ code' = "Error"
    /\ pcRecv' = "done"
    /\ wkLast' = WkStep("Receive.setStatusCode", ErrRecv)
    /\ UNCHANGED <<impl, now, tokens, limLast, updates, exits, runError, cancelFn,
                   taskCtxDone, buffer, bufClosed, recvd, reply, kv, pcSend, written,
                   counter, dummyVars>>
    /\ UNCHANGED notWkVars

(* Send: grpc.Dial(task.DstHost); on error return err *)
SendDial ==
    /\ pcSend = "Dial"
    /\ \E ok \in BOOLEAN :
        /\ pcSend' = IF ok THEN "WriteLines" ELSE "setRunError"
        /\ wkLast' = WkStep("Send.Dial", IF ok THEN NoErr ELSE ErrSend)
    /\ UNCHANGED <<impl, now, tokens, limLast, updates, exits, code, runError,
                   cancelFn, taskCtxDone, buffer, bufClosed, recvd, reply, pcRecv, kv,
                   written, counter, dummyVars>>
    /\ UNCHANGED notWkVars

(* Send: client.WriteLines(ctx); on error task.cancelFn(), return err *)
SendWriteLines ==
    /\ pcSend = "WriteLines"
    /\ \E ok \in BOOLEAN :
        /\ pcSend' = IF ok THEN "select" ELSE "setRunError"
        /\ taskCtxDone' = (taskCtxDone \/ ~ok)
        /\ wkLast' = WkStep("Send.WriteLines", IF ok THEN NoErr ELSE ErrSend)
    /\ UNCHANGED <<impl, now, tokens, limLast, updates, exits, code, runError,
                   cancelFn, buffer, bufClosed, recvd, reply, pcRecv, kv, written,
                   counter, dummyVars>>
    /\ UNCHANGED notWkVars

(* Send: select, case kv, more := <-task.buffer with a pair in the buffer *)
SendSelectRecv ==
    /\ pcSend = "select"
    /\ buffer # << >>
    /\ kv' = {Head(buffer)}
    /\ buffer' = Tail(buffer)
    /\ pcSend' = "writer.Send"
    /\ wkLast' = WkStep("Send.recv", NoErr)
    /\ UNCHANGED <<impl, now, tokens, limLast, updates, exits, code, runError,
                   cancelFn, taskCtxDone, bufClosed, recvd, reply, pcRecv, written,
                   counter, dummyVars>>
    /\ UNCHANGED notWkVars

(* Variant of SendSelectClosed: a closed buffer reads as !more although it
   still holds pairs *)
SendSelectClosedEarly ==
    /\ pcSend = "select"
    /\ bufClosed
    /\ pcSend' = "CloseAndRecv"
    /\ wkLast' = WkStep("Send.!more", NoErr)
    /\ UNCHANGED <<impl, now, tokens, limLast, updates, exits, code, runError,
                   cancelFn, taskCtxDone, buffer, bufClosed, recvd, reply, pcRecv, kv,
                   written, counter, dummyVars>>
    /\ UNCHANGED notWkVars

(* Send: select, case kv, more := <-task.buffer with the buffer closed and
   empty: !more *)
SendSelectClosed ==
    /\ pcSend = "select"
    /\ buffer = << >>
    /\ bufClosed
    /\ pcSend' = "CloseAndRecv"
    /\ wkLast' = WkStep("Send.!more", NoErr)
    /\ UNCHANGED <<impl, now, tokens, limLast, updates, exits, code, runError,
                   cancelFn, taskCtxDone, buffer, bufClosed, recvd, reply, pcRecv, kv,
                   written, counter, dummyVars>>
    /\ UNCHANGED notWkVars

(* Send: select, case <-ctx.Done(): return ctx.Err() *)
SendSelectDone ==
    /\ pcSend = "select"
    /\ taskCtxDone
    /\ pcSend' = "setRunError(ctx.Err())"
    /\ wkLast' = WkStep("Send.ctx.Done", ErrCtx)
    /\ UNCHANGED <<impl, now, tokens, limLast, updates, exits, code, runError,
                   cancelFn, taskCtxDone, buffer, bufClosed, recvd, reply, pcRecv, kv,
                   written, counter, dummyVars>>
    /\ UNCHANGED notWkVars

(* Send: writer.Send(...) succeeds; counter.Add(1); curLoc = kv.firstStr *)
SendWriteOk ==
    /\ pcSend = "writer.Send"
    /\ written' = Append(written, CHOOSE x \in kv : TRUE)
    /\ counter' = counter + 1
    /\ kv' = {}
    /\ pcSend' = "select"
    /\ wkLast' = WkStep("Send.writer.Send", NoErr)
    /\ UNCHANGED <<impl, now, tokens, limLast, updates, exits, code, runError,
                   cancelFn, taskCtxDone, buffer, bufClosed, recvd, reply, pcRecv,
                   dummyVars>>
    /\ UNCHANGED notWkVars

(* Send: writer.Send(...) fails: task.cancelFn(), return err *)
SendWriteErr ==
    /\ pcSend = "writer.Send"
    /\ taskCtxDone' = TRUE
    /\ kv' = {}
    /\ pcSend' = "setRunError"
    /\ wkLast' = WkStep("Send.writer.Send", ErrSend)
    /\ UNCHANGED <<impl, now, tokens, limLast, updates, exits, code, runError,
                   cancelFn, buffer, bufClosed, recvd, reply, pcRecv, written, counter,
                   dummyVars>>
    /\ UNCHANGED notWkVars

(* Send: writer.CloseAndRecv(); on error return err, else return nil *)
SendCloseAndRecv ==
    /\ pcSend = "CloseAndRecv"
    /\ \E ok \in BOOLEAN :
        /\ pcSend' = IF ok THEN "setStatusCode(Finished)" ELSE "setRunError"
        /\ wkLast' = WkStep("Send.CloseAndRecv", IF ok THEN NoErr ELSE ErrSend)
    /\ UNCHANGED <<impl, now, tokens, limLast, updates, exits, code, runError,
                   cancelFn, taskCtxDone, buffer, bufClosed, recvd, reply, pcRecv, kv,
                   written, counter, dummyVars>>
    /\ UNCHANGED notWkVars

(* InitImpl, second goroutine: Send returned err, task.setRunError(err) *)
SendSetRunError ==
    /\ pcSend \in {"setRunError", "setRunError(ctx.Err())"}
    /\ runError' = IF pcSend = "setRunError" THEN ErrSend ELSE ErrCtx
    /\ pcSend' = "setStatusCode(Error)"
    /\ wkLast' = WkStep("Send.setRunError", runError')
    /\ UNCHANGED <<impl, now, tokens, limLast, updates, exits, code, cancelFn,
                   taskCtxDone, buffer, bufClosed, recvd, reply, pcRecv, kv, written,
                   counter, dummyVars>>
    /\ UNCHANGED notWkVars

(* Variant of SendSetStatusError: the else is missing, Finished is written
   after Error *)
SendSetStatusErrorAsFinished ==
    /\ pcSend = "setStatusCode(Error)"
    /\ code' = "Finished"
    /\ pcSend' = "done"
    /\ wkLast' = WkStep("Send.setStatusCode", runError)
    /\ UNCHANGED <<impl, now, tokens, limLast, updates, exits, runError, cancelFn,
                   taskCtxDone, buffer, bufClosed, recvd, reply, pcRecv, kv, written,
                   counter, dummyVars>>
    /\ UNCHANGED notWkVars

(* InitImpl, second goroutine: task.setStatusCode(lib.WorkerStatusError) *)
SendSetStatusError ==
    /\ pcSend = "setStatusCode(Error)"
    /\ code' = "Error"
    /\ pcSend' = "done"
    /\ wkLast' = WkStep("Send.setStatusCode", runError)
    /\ UNCHANGED <<impl, now, tokens, limLast, updates, exits, runError, cancelFn,
                   taskCtxDone, buffer, bufClosed, recvd, reply, pcRecv, kv, written,
                   counter, dummyVars>>
    /\ UNCHANGED notWkVars

(* InitImpl, second goroutine: Send returned nil,
   task.setStatusCode(lib.WorkerStatusFinished) *)
SendSetStatusFinished ==
    /\ pcSend = "setStatusCode(Finished)"
    /\ code' = "Finished"
    /\ pcSend' = "done"
    /\ wkLast' = WkStep("Send.setStatusCode", NoErr)
    /\ UNCHANGED <<impl, now, tokens, limLast, updates, exits, runError, cancelFn,
                   taskCtxDone, buffer, bufClosed, recvd, reply, pcRecv, kv, written,
                   counter, dummyVars>>
    /\ UNCHANGED notWkVars

ErrRepeatedInit == "repeated init"
ErrNotYetInit == "not yet init"

(* NewDummyWorker *)
NewDummyWorker ==
    /\ impl = "none"
    /\ impl' = "dummyWorker"
    /\ init' = FALSE
    /\ closed' = 0
    /\ tick' = 0
    /\ wkLast' = WkStep("NewDummyWorker", NoErr)
    /\ UNCHANGED <<pcTick, closedAtCall, cvsVars>>
    /\ UNCHANGED notWkVars

(* Variant of DummyInitImpl: a repeated call is accepted *)
DummyInitImplRepeats ==
    /\ impl = "dummyWorker"
    /\ pcTick = "idle"
    /\ init' = TRUE
    /\ wkLast' = WkStep("InitImpl", NoErr)
    /\ UNCHANGED <<impl, closed, tick, pcTick, closedAtCall, cvsVars>>
    /\ UNCHANGED notWkVars

(* dummyWorker.InitImpl; the framework calls InitImpl and Tick from one
   goroutine, so not while a Tick is in progress *)
DummyInitImpl ==
    /\ impl = "dummyWorker"
    /\ pcTick = "idle"
    /\ IF ~init
       THEN /\ init' = TRUE
            /\ wkLast' = WkStep("InitImpl", NoErr)
       ELSE /\ wkLast' = WkStep("InitImpl", ErrRepeatedInit)
            /\ UNCHANGED init
    /\ UNCHANGED <<impl, closed, tick, pcTick, closedAtCall, cvsVars>>
    /\ UNCHANGED notWkVars

(* dummyWorker.Tick is called: if !d.init, return an error *)
DummyTickBegin ==
    /\ impl = "dummyWorker"
    /\ pcTick = "idle"
    /\ tick < MaxTick
    /\ IF ~init
       THEN /\ wkLast' = WkStep("Tick", ErrNotYetInit)
            /\ UNCHANGED <<pcTick, closedAtCall>>
       ELSE /\ pcTick' = "loadClosed"
            /\ closedAtCall' = (closed = 1)
            /\ wkLast' = WkStep("Tick.called", NoErr)
    /\ UNCHANGED <<impl, init, closed, tick, cvsVars>>
    /\ UNCHANGED notWkVars

(* dummyWorker.Tick: if atomic.LoadInt32(&d.closed) == 1, return nil *)
DummyTickLoadClosed ==
    /\ pcTick = "loadClosed"
    /\ IF closed = 1
       THEN /\ pcTick' = "idle"
            /\ wkLast' = WkStep("Tick", NoErr)
       ELSE /\ pcTick' = "inc"
            /\ wkLast' = WkStep("Tick.LoadInt32", NoErr)
    /\ UNCHANGED <<impl, init, closed, tick, closedAtCall, cvsVars>>
    /\ UNCHANGED notWkVars

(* dummyWorker.Tick: d.tick++, return nil *)
DummyTickInc ==
    /\ pcTick = "inc"
    /\ tick' = tick + 1
    /\ pcTick' = "idle"
    /\ wkLast' = WkStep("Tick.tick++", NoErr)
    /\ UNCHANGED <<impl, init, closed, closedAtCall, cvsVars>>
    /\ UNCHANGED notWkVars

(* dummyWorker.CloseImpl, from any goroutine *)
DummyCloseImpl ==
    /\ impl = "dummyWorker"
    /\ closed' = 1
    /\ wkLast' = WkStep("CloseImpl", NoErr)
    /\ UNCHANGED <<impl, init, tick, pcTick, closedAtCall, cvsVars>>
    /\ UNCHANGED notWkVars

WkNext ==
    \/ NewCvsTask
    \/ Advance
    \/ CvsInitImpl
    \/ \E us \in {NoErr, ErrUpdateStatusTryAgain, ErrUpdateStatus}, ex \in {NoErr, ErrExit} :
          CvsTick(us, ex)
    \/ CvsCloseImpl
    \/ RecvDial
    \/ RecvReadLines
    \/ RecvRecvPair
    \/ RecvRecvEof
    \/ RecvRecvErr
    \/ RecvSelectSend
    \/ RecvSelectDone
    \/ RecvSetRunError
    \/ RecvSetStatusCode
    \/ SendDial
    \/ SendWriteLines
    \/ SendSelectRecv
    \/ SendSelectClosed
    \/ SendSelectDone
    \/ SendWriteOk
    \/ SendWriteErr
    \/ SendCloseAndRecv
    \/ SendSetRunError
    \/ SendSetStatusError
    \/ SendSetStatusFinished
    \/ NewDummyWorker
    \/ DummyInitImpl
    \/ DummyTickBegin
    \/ DummyTickLoadClosed
    \/ DummyTickInc
    \/ DummyCloseImpl

(* the worker implementations *)
SpecWorker == Init /\ [][WkNext]_vars

----------------------------------------------------------------------------
(* Properties of the worker implementations, checked under SpecWorker *)

TickOps == {"Tick", "Tick.UpdateStatus", "Tick.Exit"}

(* the number of UpdateStatus calls at a time from s to e *)
UpdatesIn(s, e) == Cardinality({i \in DOMAIN updates : s <= updates[i] /\ updates[i] <= e})

(* C21: in any window of n seconds Tick calls UpdateStatus at most n + 1
   times, whatever the cadence of the ticks. *)
C21_RateLimited ==
    \A s \in 0..MaxTime, n \in 0..(MaxTime \div UnitsPerSecond) :
        UpdatesIn(s, s + n * UnitsPerSecond) <= n + 1

(* ticks at every clock value: three status updates one second apart, and
   the last tick was refused the limiter's token *)
C21_Witness ==
    /\ Len(updates) >= 3
    /\ wkLast.op \in {"Tick", "Tick.Exit"}
    /\ updates[Len(updates)] = now

(* C22: once the status code is Finished or Error, a Tick that completes
   without error has called Exit with the current status and run error. *)
C22_TickExits ==
    [][(code \in {"Finished", "Error"} /\ wkLast'.op \in TickOps /\ wkLast'.err = NoErr)
         => (wkLast'.op = "Tick.Exit" /\ <<code, runError>> \in exits')]_vars

(* a stage has returned an error *)
StageFailed ==
    \/ pcRecv \in {"setRunError", "setStatusCode"}
    \/ pcSend \in {"setRunError", "setRunError(ctx.Err())", "setStatusCode(Error)"}
    \/ runError # NoErr

(* C23: Error dominates Finished.  Once a stage has returned an error the
   code is never Finished, and it is Error when both goroutines are over;
   Error is never left, and Finished is never overwritten. *)
C23_ErrorDominates ==
    /\ [](StageFailed => code # "Finished")
    /\ [](StageFailed /\ pcRecv = "done" /\ pcSend = "done" => code = "Error")
    /\ [][/\ code = "Error" => code' = "Error"
          /\ code = "Finished" => code' = "Finished" ]_vars

(* both stages returned an error, Receive's being set last *)
C23_Witness ==
    /\ pcRecv = "done"
    /\ pcSend = "done"
    /\ runError = ErrRecv
    /\ written # << >>
    /\ code = "Error"

(* C24: the status code only moves forward.  It is Normal before a stage
   runs; the only writes that change it are InitImpl's to Normal and a
   stage's from Normal to Error or Finished. *)
C24_ForwardOnly ==
    /\ [](pcRecv # "none" \/ pcSend # "none" => code # "zero")
    /\ [][code' # code =>
            \/ code = "zero" /\ code' = "Normal" /\ wkLast'.op = "InitImpl"
            \/ code = "Normal" /\ code' \in {"Error", "Finished"}]_vars

(* the code went from Normal to Finished and the worker was closed after *)
C24_Witness ==
    /\ code = "Finished"
    /\ wkLast.op = "CloseImpl"
    /\ taskCtxDone

(* a set of at most one pair, as a sequence *)
AsSeq(S) == IF S = {} THEN << >> ELSE <<CHOOSE x \in S : TRUE>>

(* the pairs read and not lost, oldest first *)
InFlight == written \o AsSeq(kv) \o buffer \o AsSeq(reply)

(* C25: the buffer never holds more than BUFFERSIZE pairs; with the buffer
   full Receive goes on only by the cancellation of the ctx; what was
   written downstream is a prefix of what was read upstream, and the pairs
   on their way are in upstream order, none twice. *)
C25_BoundedFifo ==
    /\ [](/\ Len(buffer) <= BUFFERSIZE
          /\ Len(written) <= recvd
          /\ \A i \in 1..Len(written) : written[i] = i
          /\ \A i \in 1..Len(InFlight) : InFlight[i] \in 1..recvd
          /\ \A i, j \in 1..Len(InFlight) : i < j => InFlight[i] < InFlight[j])
    /\ [][pcRecv = "select" /\ Len(buffer) >= BUFFERSIZE /\ pcRecv' # pcRecv
            => taskCtxDone /\ pcRecv' = "done" /\ buffer' = buffer]_vars

(* Receive holds a pair and waits on a full buffer, Send having written one *)
C25_Witness ==
    /\ pcRecv = "select"
    /\ reply # {}
    /\ Len(buffer) = BUFFERSIZE
    /\ pcSend = "select"

(* C26: CloseImpl never fails; it cancels the task ctx when there is one
   (cvsTask) or sets closed (dummyWorker) and changes nothing else; a
   CloseImpl right after a CloseImpl changes nothing at all. *)
C26_CloseIdempotent ==
    [][wkLast'.op = "CloseImpl" =>
          /\ wkLast'.err = NoErr
          /\ wkLast.op # "CloseImpl"
          /\ taskCtxDone' = (taskCtxDone \/ (impl = "cvsTask" /\ cancelFn))
          /\ closed' = (IF impl = "dummyWorker" THEN 1 ELSE closed)
          /\ UNCHANGED <<impl, now, tokens, limLast, updates, exits, code, runError,
                         cancelFn, buffer, bufClosed, recvd, reply, pcRecv, kv, pcSend,
                         written, counter, init, tick, pcTick, closedAtCall>>]_vars

(* CloseImpl was called on a cvsTask before InitImpl *)
C26_Witness ==
    /\ impl = "cvsTask"
    /\ wkLast = WkStep("CloseImpl", NoErr)
    /\ ~cancelFn
    /\ ~taskCtxDone

(* C27: dummyWorker.InitImpl succeeds the first time and afterwards returns
   an error and changes nothing; a Tick before InitImpl returns an error and
   a Tick called after CloseImpl returns nil, neither advancing tick. *)
C27_InitOnce ==
    /\ [](tick > 0 => init)
    /\ [](pcTick = "inc" => init /\ ~closedAtCall)
    /\ [][/\ impl = "dummyWorker" /\ wkLast'.op = "InitImpl" =>
                IF init
                THEN wkLast'.err = ErrRepeatedInit /\ UNCHANGED dummyVars
                ELSE wkLast'.err = NoErr /\ init'
          /\ impl = "dummyWorker" /\ ~init /\ wkLast'.op \in TickOps \cup {"Tick.called"} =>
                wkLast' = WkStep("Tick", ErrNotYetInit) /\ UNCHANGED dummyVars
          /\ pcTick = "loadClosed" /\ closedAtCall /\ pcTick' # pcTick =>
                wkLast' = WkStep("Tick", NoErr) /\ tick' = tick /\ pcTick' = "idle"]_vars

(* a second InitImpl was refused, after ticks and CloseImpl *)
C27_Witness ==
    /\ wkLast = WkStep("InitImpl", ErrRepeatedInit)
    /\ tick > 0
    /\ closed = 1

----------------------------------------------------------------------------
(* Part 4: the logic epoch *)

ErrMetaOpFail == "ErrMetaOpFail"

(* InitializeEpoch: the record is created with defaultMinEpoch when there is
   none; ok is whether the database calls succeed *)
InitializeEpoch(ok) ==
    /\ IF ok /\ epochRow = {}
       THEN epochRow' = {defaultMinEpoch}
       ELSE UNCHANGED epochRow
    /\ epLast' = EpStep("InitializeEpoch", {}, 0, IF ok THEN NoErr ELSE ErrMetaOpFail)
    /\ UNCHANGED <<rowLock, pcGen, txEpoch, logicEp, gens>>
    /\ UNCHANGED notEpVars

(* the transaction of client c is rolled back and GenEpoch returns
   (0, ErrMetaOpFail) *)
GenRollback(c) ==
    /\ rowLock' = rowLock \ {c}
    /\ txEpoch' = [txEpoch EXCEPT ![c] = {}]
    /\ logicEp' = [logicEp EXCEPT ![c] = {}]
    /\ pcGen' = [pcGen EXCEPT ![c] = "idle"]
    /\ epLast' = EpStep("GenEpoch", {c}, 0, ErrMetaOpFail)
    /\ UNCHANGED <<epochRow, gens>>

(* GenEpoch is called: c.db.Transaction begins *)
GenBegin(c) ==
    /\ pcGen[c] = "idle"
    /\ Len(gens) < MaxGen
    /\ pcGen' = [pcGen EXCEPT ![c] = "update"]
    /\ epLast' = EpStep("GenEpoch.Transaction", {c}, 0, NoErr)
    /\ UNCHANGED <<epochRow, rowLock, txEpoch, logicEp, gens>>
    /\ UNCHANGED notEpVars

(* GenEpoch (1): UPDATE epoch = epoch + 1 of the record; it waits while
   another transaction holds the record's lock, and with no record it
   updates nothing and is no error *)
GenUpdate(c) ==
    /\ pcGen[c] = "update"
    /\ rowLock = {}
    /\ IF epochRow = {}
       THEN UNCHANGED <<rowLock, txEpoch>>
       ELSE /\ rowLock' = {c}
            /\ txEpoch' = [txEpoch EXCEPT ![c] = {e + 1 : e \in epochRow}]
    /\ pcGen' = [pcGen EXCEPT ![c] = "select"]
    /\ epLast' = EpStep("GenEpoch.Update", {c}, 0, NoErr)
    /\ UNCHANGED <<epochRow, logicEp, gens>>
    /\ UNCHANGED notEpVars

(* GenEpoch (1): the UPDATE fails: the transaction is rolled back *)
GenUpdateErr(c) ==
    /\ pcGen[c] = "update"
    /\ GenRollback(c)
    /\ UNCHANGED notEpVars

(* Variant of GenSelect: the SELECT is made outside the transaction, on
   c.db, and sees the committed epoch *)
GenSelectOutsideTx(c) ==
    /\ pcGen[c] = "select"
    /\ IF epochRow = {}
       THEN GenRollback(c)
       ELSE /\ logicEp' = [logicEp EXCEPT ![c] = epochRow]
            /\ pcGen' = [pcGen EXCEPT ![c] = "commit"]
            /\ epLast' = EpStep("GenEpoch.First", {c}, 0, NoErr)
            /\ UNCHANGED <<epochRow, rowLock, txEpoch, gens>>
    /\ UNCHANGED notEpVars

(* the record as the transaction of client c sees it: its own UPDATE if it
   made one, else what is committed *)
RowSeenBy(c) == IF txEpoch[c] # {} THEN txEpoch[c] ELSE epochRow

(* GenEpoch (2): SELECT of the record inside the transaction; with no record
   it is ErrRecordNotFound *)
GenSelect(c) ==
    /\ pcGen[c] = "select"
    /\ IF RowSeenBy(c) = {}
       THEN GenRollback(c)
       ELSE /\ logicEp' = [logicEp EXCEPT ![c] = RowSeenBy(c)]
            /\ pcGen' = [pcGen EXCEPT ![c] = "commit"]
            /\ epLast' = EpStep("GenEpoch.First", {c}, 0, NoErr)
            /\ UNCHANGED <<epochRow, rowLock, txEpoch, gens>>
    /\ UNCHANGED notEpVars

(* GenEpoch (2): the SELECT fails: the transaction is rolled back *)
GenSelectErr(c) ==
    /\ pcGen[c] = "select"
    /\ GenRollback(c)
    /\ UNCHANGED notEpVars

(* GenEpoch: the function returned nil, the transaction commits and GenEpoch
   returns the epoch selected.  gens records the calls whose UPDATE found
   the record, which every call made after InitializeEpoch does *)
GenCommit(c) ==
    /\ pcGen[c] = "commit"
    /\ epochRow' = RowSeenBy(c)
    /\ rowLock' = rowLock \ {c}
    /\ gens' = IF txEpoch[c] = {} THEN gens ELSE gens \o AsSeq(logicEp[c])
    /\ epLast' = EpStep("GenEpoch", {c}, CHOOSE e \in logicEp[c] : TRUE, NoErr)
    /\ txEpoch' = [txEpoch EXCEPT ![c] = {}]
    /\ logicEp' = [logicEp EXCEPT ![c] = {}]
    /\ pcGen' = [pcGen EXCEPT ![c] = "idle"]
    /\ UNCHANGED notEpVars

(* GenEpoch: the commit fails: the transaction is rolled back *)
GenCommitErr(c) ==
    /\ pcGen[c] = "commit"
    /\ GenRollback(c)
    /\ UNCHANGED notEpVars

EpNext ==
    \/ \E ok \in BOOLEAN : InitializeEpoch(ok)
    \/ \E c \in Clients :
        \/ GenBegin(c)
        \/ GenUpdate(c)
        \/ GenUpdateErr(c)
        \/ GenSelect(c)
        \/ GenSelectErr(c)
        \/ GenCommit(c)
        \/ GenCommitErr(c)

(* the logic epoch *)
SpecEpoch == Init /\ [][EpNext]_vars

----------------------------------------------------------------------------
(* Properties of the logic epoch, checked under SpecEpoch *)

(* C28: the k-th successful GenEpoch after initialisation returns
   defaultMinEpoch + k, which is then the stored epoch, so no two calls
   return the same epoch; a failed call returns 0 and leaves the stored
   epoch as it was. *)
C28_GenEpochIncreasing ==
    /\ [](\A k \in DOMAIN gens : gens[k] = defaultMinEpoch + k)
    /\ [](epochRow # {} => epochRow = {defaultMinEpoch + Len(gens)})
    /\ [][/\ epLast'.op = "GenEpoch" /\ epLast'.err # NoErr =>
                epLast'.epoch = 0 /\ epochRow' = epochRow /\ gens' = gens
          /\ gens' # gens =>
                /\ epLast'.op = "GenEpoch"
                /\ epLast'.err = NoErr
                /\ gens' = Append(gens, epLast'.epoch)
                /\ epochRow' = {epLast'.epoch}]_vars

(* two calls have succeeded, and a third holds the record's lock while
   another waits for it *)
C28_Witness ==
    /\ Len(gens) >= 2
    /\ rowLock # {}
    /\ \E c \in Clients : pcGen[c] = "update"

----------------------------------------------------------------------------
(* Part 5: the mock metastore *)

(* keys are strings, here sequences of characters; the empty string is used
   as a Get prefix only *)
Keys == {<<"a">>, <<"a", "a">>, <<"a", "b">>, <<"b">>}

(* values are strings of arbitrary bytes *)
Values == {<<120>>, <<0, 255>>}

(* a []byte is nil or a slice of bytes *)
NilBytes == [nil |-> TRUE, bytes |-> << >>]

(* string(b) of a []byte b: the same bytes; the empty string for nil *)
StringOf(b) == IF b.nil THEN << >> ELSE b.bytes

(* []byte(s) of a string s: a slice, not nil, of the same bytes *)
BytesOf(str) == [nil |-> FALSE, bytes |-> str]

(* Variant of HasPrefix: strings.Contains *)
Contains(str, prefix) ==
    \E i \in 0..(Len(str) - Len(prefix)) : SubSeq(str, i + 1, i + Len(prefix)) = prefix

(* strings.HasPrefix(str, prefix) *)
HasPrefix(str, prefix) ==
    Len(prefix) <= Len(str) /\ SubSeq(str, 1, Len(prefix)) = prefix

(* metaclient.Op: OpPut(key, value), OpDelete(key), OpGet(key); KeyBytes and
   ValueBytes are its key and value, the value of an op that is no put
   being nil *)
OpPut(key, value) == [kind |-> "Put", KeyBytes |-> BytesOf(key), ValueBytes |-> BytesOf(value)]

OpDelete(key) == [kind |-> "Delete", KeyBytes |-> BytesOf(key), ValueBytes |-> NilBytes]

OpGet(key) == [kind |-> "Get", KeyBytes |-> BytesOf(key), ValueBytes |-> NilBytes]

(* the ops the callers put into transactions *)
TxnOpInputs ==
    {OpPut(<<"a">>, <<120>>), OpDelete(<<"a", "b">>), OpGet(<<"a">>)}

(* MetaMock.Put(ctx, key, value) *)
Put(key, value) ==
    /\ revision < MaxRevision
    /\ store' = MapPut(store, key, value)
    /\ revision' = revision + 1
    /\ msLast' = MsStep("Put", key, value, {})
    /\ UNCHANGED <<txnOps, txnNext>>
    /\ UNCHANGED notMsVars

(* MetaMock.Delete(ctx, key) *)
Delete(key) ==
    /\ revision < MaxRevision
    /\ store' = MapDelete(store, key)
    /\ revision' = revision + 1
    /\ msLast' = MsStep("Delete", key, << >>, {})
    /\ UNCHANGED <<txnOps, txnNext>>
    /\ UNCHANGED notMsVars

(* MetaMock.Get(ctx, key): ret.Kvs holds the pairs of the stored keys that
   have key as a prefix, in the order the map is ranged over (any) *)
Get(key) ==
    /\ revision < MaxRevision
    /\ revision' = revision + 1
    /\ msLast' = MsStep("Get", key, << >>,
                        {<<BytesOf(k), BytesOf(store[k])>> :
                            k \in {x \in DOMAIN store : HasPrefix(x, key)}})
    /\ UNCHANGED <<store, txnOps, txnNext>>
    /\ UNCHANGED notMsVars

(* mockTxn.Do(ops...) on the transaction MetaMock.Txn returned *)
TxnDo(op) ==
    /\ txnNext = 0
    /\ Len(txnOps) < MaxTxnOps
    /\ txnOps' = Append(txnOps, op)
    /\ msLast' = MsStep("Txn.Do", StringOf(op.KeyBytes), StringOf(op.ValueBytes), {})
    /\ UNCHANGED <<store, revision, txnNext>>
    /\ UNCHANGED notMsVars

(* the op Commit's loop is at *)
TxnAt == IF txnNext = 0 THEN 1 ELSE txnNext

(* mockTxn.Commit, one iteration of its loop: t.m.Put(t.c,
   string(op.KeyBytes()), string(op.ValueBytes())), whatever the op is; after
   the last op Commit returns nil, nil *)
TxnCommit ==
    /\ txnOps # << >>
    /\ revision < MaxRevision
    /\ store' = MapPut(store, StringOf(txnOps[TxnAt].KeyBytes),
                       StringOf(txnOps[TxnAt].ValueBytes))
    /\ revision' = revision + 1
    /\ IF TxnAt = Len(txnOps)
       THEN /\ txnNext' = 0
            /\ txnOps' = << >>
            /\ msLast' = MsStep("Commit", StringOf(txnOps[TxnAt].KeyBytes),
                                StringOf(txnOps[TxnAt].ValueBytes), {})
       ELSE /\ txnNext' = TxnAt + 1
            /\ msLast' = MsStep("Commit.Put", StringOf(txnOps[TxnAt].KeyBytes),
                                StringOf(txnOps[TxnAt].ValueBytes), {})
            /\ UNCHANGED txnOps
    /\ UNCHANGED notMsVars

MsNext ==
    \/ \E key \in Keys, value \in Values : Put(key, value)
    \/ \E key \in Keys : Delete(key)
    \/ \E key \in Keys \cup {<< >>} : Get(key)
    \/ \E op \in TxnOpInputs : TxnDo(op)
    \/ TxnCommit

(* the mock metastore *)
SpecMeta == Init /\ [][MsNext]_vars

----------------------------------------------------------------------------
(* Properties of the mock metastore, checked under SpecMeta *)

(* str is prefix followed by some string *)
StartsWith(str, prefix) == \E n \in 0..Len(str) : SubSeq(str, 1, n) = prefix

(* the pairs of store m whose key has key as a prefix *)
PrefixPairs(m, key) ==
    {<<BytesOf(k), BytesOf(m[k])>> : k \in {x \in DOMAIN m : StartsWith(x, key)}}

(* every key but key has in store' what it has in store *)
OthersUnchanged(key) ==
    /\ DOMAIN store' \ {key} = DOMAIN store \ {key}
    /\ \A k \in DOMAIN store \ {key} : store'[k] = store[k]

(* C29: Put(k, v) stores v under k and Delete(k) removes k, each leaving the
   other keys as they were; Get(k) changes nothing and returns exactly the
   stored pairs whose key has k as a prefix, so the Get(k) after Put(k, v)
   returns (k, v) with the bytes put, and the Get(k) after Delete(k) returns
   no pair of key k. *)
C29_RoundTrip ==
    [][/\ msLast'.op = "Put" =>
            /\ msLast'.key \in DOMAIN store'
            /\ store'[msLast'.key] = msLast'.value
            /\ OthersUnchanged(msLast'.key)
       /\ msLast'.op = "Delete" =>
            /\ msLast'.key \notin DOMAIN store'
            /\ OthersUnchanged(msLast'.key)
       /\ msLast'.op = "Get" =>
            /\ store' = store
            /\ msLast'.kvs = PrefixPairs(store, msLast'.key)
       /\ msLast.op = "Put" /\ msLast'.op = "Get" /\ msLast'.key = msLast.key =>
            /\ \E pair \in msLast'.kvs :
                  StringOf(pair[1]) = msLast.key /\ StringOf(pair[2]) = msLast.value
            /\ \A pair \in msLast'.kvs :
                  StringOf(pair[1]) = msLast.key => StringOf(pair[2]) = msLast.value
       /\ msLast.op = "Delete" /\ msLast'.op = "Get" /\ msLast'.key = msLast.key =>
            \A pair \in msLast'.kvs : StringOf(pair[1]) # msLast.key]_vars

(* Get of prefix a returned several pairs, with key b stored as well *)
C29_Witness ==
    /\ msLast.op = "Get"
    /\ msLast.key = <<"a">>
    /\ Cardinality(msLast.kvs) >= 2
    /\ <<"b">> \in DOMAIN store
    /\ \E pair \in msLast.kvs : StringOf(pair[2]) = <<0, 255>>

(* C30: Commit applies each op according to its kind, a Delete op removing
   its key and a Get op changing nothing, and no step of another client is
   taken between the first and the last op of a Commit. *)
C30_TxnAtomic ==
    [][/\ txnNext > 0 => msLast'.op \in {"Commit.Put", "Commit"}
       /\ msLast'.op \in {"Commit.Put", "Commit"} /\ txnOps # << >> =>
            /\ txnOps[TxnAt].kind = "Delete" =>
                  StringOf(txnOps[TxnAt].KeyBytes) \notin DOMAIN store'
            /\ txnOps[TxnAt].kind = "Get" => store' = store]_vars

----------------------------------------------------------------------------
(* Part 6: the heartbeat protocol (unnamed/part_001) *)

(* HeartbeatPingMessage{SendTime, FromWorkerID, Epoch} of the one worker *)
HeartbeatPingMessage(sendTime, epoch) == [sendTime |-> sendTime, epoch |-> epoch]

(* HeartbeatPongMessage{SendTime, ReplyTime, Epoch}: SendTime echoes the ping's *)
HeartbeatPongMessage(sendTime, replyTime, epoch) ==
    [sendTime |-> sendTime, replyTime |-> replyTime, epoch |-> epoch]

(* the master declares the worker dead without the grace *)
masterTimeoutNoGrace == workerTimeoutDuration

(* the time without a ping after which the master declares the worker dead *)
masterTimeout == workerTimeoutDuration + workerTimeoutGracefulDuration

(* the ping topic with msg published: a cut network, or one that holds
   MaxInFlight messages of the sender already, loses it *)
PublishPing(msg) ==
    IF cut \/ Len(pings) >= MaxInFlight THEN pings ELSE Append(pings, msg)

(* the pong topic with msg published; the sender is the master incarnation *)
PublishPong(msg) ==
    IF cut \/ Cardinality({m \in pongs : m.epoch = msg.epoch}) >= MaxInFlight
      THEN pongs
      ELSE pongs \cup {msg}

(* worker, every workerHeartbeatInterval: it initiates Close when no pong
   of its epoch has acknowledged a ping sent in the last
   workerTimeoutDuration, and publishes a ping otherwise *)
WorkerHeartbeat ==
    /\ ~workerClosed
    /\ nextPing = hbNow
    /\ nextPing' = hbNow + workerHeartbeatInterval
    /\ IF hbNow - lastAcked > workerTimeoutDuration
         THEN /\ workerClosed' = TRUE
              /\ pings' = pings
              /\ hbLast' = HbStep("other", 0, 0)
         ELSE /\ workerClosed' = workerClosed
              /\ pings' = PublishPing(HeartbeatPingMessage(hbNow, workerEpoch))
              /\ hbLast' = HbStep("other", 0, 0)
    /\ UNCHANGED <<hbNow, pongs, workerEpoch, masterEpoch, lastPing, lastAcked, nextCheck,
                   offline, cut>>
    /\ UNCHANGED notHbVars

(* worker: Close for a reason of its own (Exit, an error, a crash) *)
WorkerClose ==
    /\ ~workerClosed
    /\ workerClosed' = TRUE
    /\ hbLast' = HbStep("other", 0, 0)
    /\ UNCHANGED <<hbNow, pings, pongs, workerEpoch, masterEpoch, lastPing, lastAcked,
                   nextPing, nextCheck, offline, cut>>
    /\ UNCHANGED notHbVars

(* the worker takes the epoch of a pong of any epoch and lets it refresh
   its timer *)
HandlePongAnyEpoch(msg) ==
    /\ msg \in pongs
    /\ \A m \in pongs : m.epoch = msg.epoch => m.sendTime >= msg.sendTime
    /\ pongs' = pongs \ {msg}
    /\ IF workerClosed
         THEN UNCHANGED <<workerEpoch, lastAcked>>
         ELSE /\ workerEpoch' = msg.epoch
              /\ lastAcked' = msg.sendTime
    /\ hbLast' = HbStep("HandlePong", msg.sendTime, msg.epoch)
    /\ UNCHANGED <<hbNow, pings, masterEpoch, lastPing, nextPing, nextCheck, workerClosed,
                   offline, cut>>
    /\ UNCHANGED notHbVars

(* worker, on a pong: one of a lower epoch than its own is discarded; any
   other gives the worker its epoch and acknowledges the ping it echoes.
   The pongs of one master incarnation arrive in send order. *)
HandlePong(msg) ==
    /\ msg \in pongs
    /\ \A m \in pongs : m.epoch = msg.epoch => m.sendTime >= msg.sendTime
    /\ pongs' = pongs \ {msg}
    /\ IF workerClosed \/ msg.epoch < workerEpoch
         THEN UNCHANGED <<workerEpoch, lastAcked>>
         ELSE /\ workerEpoch' = msg.epoch
              /\ lastAcked' = msg.sendTime
    /\ hbLast' = HbStep("HandlePong", msg.sendTime, msg.epoch)
    /\ UNCHANGED <<hbNow, pings, masterEpoch, lastPing, nextPing, nextCheck, workerClosed,
                   offline, cut>>
    /\ UNCHANGED notHbVars

(* master, on a ping: it notes the time and replies with a pong that echoes
   SendTime and carries its epoch; a ping of a worker already declared
   offline is logged and ignored *)
HandlePing ==
    /\ pings # << >>
    /\ pings' = Tail(pings)
    /\ IF offline
         THEN UNCHANGED <<lastPing, pongs>>
         ELSE /\ lastPing' = hbNow
              /\ pongs' = PublishPong(
                            HeartbeatPongMessage(Head(pings).sendTime, hbNow, masterEpoch))
    /\ hbLast' = HbStep("other", 0, 0)
    /\ UNCHANGED <<hbNow, workerEpoch, masterEpoch, lastAcked, nextPing, nextCheck,
                   workerClosed, offline, cut>>
    /\ UNCHANGED notHbVars

(* master, every masterHeartbeatCheckLoopInterval: a worker whose last ping
   is older than masterTimeout is declared offline (JobOffline) *)
MasterCheck ==
    /\ ~offline
    /\ nextCheck = hbNow
    /\ nextCheck' = hbNow + masterHeartbeatCheckLoopInterval
    /\ offline' = (hbNow - lastPing > masterTimeout)
    /\ hbLast' = HbStep("other", 0, 0)
    /\ UNCHANGED <<hbNow, pings, pongs, workerEpoch, masterEpoch, lastPing, lastAcked,
                   nextPing, workerClosed, cut>>
    /\ UNCHANGED notHbVars

(* server-master failover: the new leader has the next epoch and starts to
   watch the worker; what the old leader sent stays in flight *)
MasterFailover ==
    /\ ~offline
    /\ masterEpoch < MaxEpoch
    /\ masterEpoch' = masterEpoch + 1
    /\ lastPing' = hbNow
    /\ hbLast' = HbStep("other", 0, 0)
    /\ UNCHANGED <<hbNow, pings, pongs, workerEpoch, lastAcked, nextPing, nextCheck,
                   workerClosed, offline, cut>>
    /\ UNCHANGED notHbVars

(* the network between the worker and the master is cut: what is in flight
   is lost, and so is everything published from now on *)
Cut ==
    /\ ~cut
    /\ cut' = TRUE
    /\ pings' = << >>
    /\ pongs' = {}
    /\ hbLast' = HbStep("other", 0, 0)
    /\ UNCHANGED <<hbNow, workerEpoch, masterEpoch, lastPing, lastAcked, nextPing,
                   nextCheck, workerClosed, offline>>
    /\ UNCHANGED notHbVars

(* a second passes, once the heartbeat and the check due now are done and
   no message has been in flight for MaxDelay *)
HbTick ==
    /\ hbNow < MaxHbTime
    /\ workerClosed \/ nextPing > hbNow
    /\ offline \/ nextCheck > hbNow
    /\ \A k \in DOMAIN pings : hbNow - pings[k].sendTime < MaxDelay
    /\ \A m \in pongs : hbNow - m.replyTime < MaxDelay
    /\ hbNow' = hbNow + 1
    /\ hbLast' = HbStep("other", 0, 0)
    /\ UNCHANGED <<pings, pongs, workerEpoch, masterEpoch, lastPing, lastAcked, nextPing,
                   nextCheck, workerClosed, offline, cut>>
    /\ UNCHANGED notHbVars

HbNext ==
    \/ WorkerHeartbeat
    \/ WorkerClose
    \/ \E msg \in pongs : HandlePong(msg)
    \/ HandlePing
    \/ MasterCheck
    \/ MasterFailover
    \/ Cut
    \/ HbTick

SpecHb == Init /\ [][HbNext]_vars

----------------------------------------------------------------------------
(* Properties of the heartbeat protocol, checked under SpecHb *)

(* C31: when the master declares the worker offline, the last ping it
   observed is at least workerTimeoutDuration + workerTimeoutGracefulDuration
   (20 s) old, and a worker that is cut off from the master has initiated
   Close by then. *)
C31_MasterTimeout ==
    [][(offline' /\ ~offline) =>
          (/\ hbNow - lastPing >= workerTimeoutDuration + workerTimeoutGracefulDuration
           /\ hbNow - lastPing >= 20
           /\ cut => workerClosed)]_vars

(* the master has declared a worker offline that was cut off after its
   pings had been answered, and that closed through its own timeout *)
C31_Witness ==
    /\ offline
    /\ cut
    /\ workerClosed
    /\ lastPing > 0
    /\ lastAcked > 0

(* C32: a pong of a lower epoch than the worker's changes neither the
   worker's epoch nor the time of its last acknowledged ping, and the epoch
   of the worker never decreases. *)
C32_StalePongDiscarded ==
    [][/\ (hbLast'.op = "HandlePong" /\ hbLast'.epoch < workerEpoch) =>
            (workerEpoch' = workerEpoch /\ lastAcked' = lastAcked)
       /\ workerEpoch' >= workerEpoch]_vars

(* the worker, alive and at the epoch of the new master, has handled a pong
   of the old master that echoes another ping than the last acknowledged *)
C32_Witness ==
    /\ hbLast.op = "HandlePong"
    /\ hbLast.epoch < workerEpoch
    /\ hbLast.sendTime # lastAcked
    /\ ~workerClosed

----------------------------------------------------------------------------
(* Further properties of the Job FSM, checked under Spec *)

(* C33: when dispatchJobFn has returned worker id w to IterWaitAckJobs for
   a failover entry, the job of that entry is held in waitAckJobs under w,
   so that the JobOnline of worker w finds it. *)
C33_RedispatchReachable ==
    [][\A id \in IDs, w \in IDs :
        (last'.op = "IterWaitAckJobs.ok" /\ last'.id = {id} /\ last'.ret = {w})
        => /\ w \in DOMAIN waitAckJobs'
           /\ waitAckJobs'[w].MasterMeta = waitAckJobs[id].MasterMeta
           /\ metaID'[waitAckJobs[id].MasterMeta] = w]_vars

(* The Job FSM with its dispatcher: the dispatcher tick calls
   IterPendingJobs again and again and gets the lock each time, every
   dispatchJobFn call returns, and the loop of either iterator goes on to
   its next entry or to its end.  Which entry the range loop yields first is left open, as Go
   leaves it. *)
SpecDispatcher ==
    /\ Init
    /\ [][Next]_vars
    /\ SF_vars(IterPendingJobsLock)
    /\ WF_vars(\E k \in IDs : IterPendingJobsDispatch(k))
    /\ WF_vars((\E id \in IDs : IterPendingJobsOk(id)) \/ IterPendingJobsErr)
    /\ WF_vars(IterPendingJobsDone)
    /\ WF_vars(\E id \in IDs : IterWaitAckJobsDispatch(id))
    /\ WF_vars((\E id \in IDs : IterWaitAckJobsOk(id)) \/ IterWaitAckJobsErr)
    /\ WF_vars(IterWaitAckJobsDone)

(* job is held by an entry of pendingJobs *)
Pending(job) == \E k \in DOMAIN pendingJobs : pendingJobs[k] = job

(* C34: under repeated IterPendingJobs calls, a job whose dispatchJobFn call
   never fails does not stay in pendingJobs for ever (IterPendingJobs moves
   it to waitAckJobs), whatever becomes of the dispatch of the other pending
   jobs. *)
C34_IndependentDispatch ==
    \A job \in 1..MaxJobs : [](job \notin dispatchErrs) => []<>(~Pending(job))

(* C35: IterWaitAckJobs calls dispatchJobFn only for a waitAck entry whose
   addFromFailover is true; an entry has the flag only from
   JobDispatched(job, true), never from JobDispatched(job, false) nor from
   IterPendingJobs; and no step of IterWaitAckJobs adds, removes or re-keys
   an entry of pendingJobs, waitAckJobs or onlineJobs. *)
C35_OnlyFailoverEntries ==
    [][/\ last'.op = "IterWaitAckJobs.dispatchJobFn" =>
            \A id \in last'.id : id \in DOMAIN waitAckJobs /\ waitAckJobs[id].addFromFailover
       /\ \A id \in DOMAIN waitAckJobs' :
            waitAckJobs'[id].addFromFailover =>
                \/ last'.op = "JobDispatched" /\ last'.id = {id} /\ last'.flag
                \/ /\ id \in DOMAIN waitAckJobs
                   /\ waitAckJobs[id].addFromFailover
                   /\ waitAckJobs'[id].MasterMeta = waitAckJobs[id].MasterMeta
       /\ (jobsMu = "IterWaitAckJobs" \/ jobsMu' = "IterWaitAckJobs") =>
            /\ pendingJobs' = pendingJobs
            /\ onlineJobs' = onlineJobs
            /\ metaID' = metaID
            /\ DOMAIN waitAckJobs' = DOMAIN waitAckJobs
            /\ \A id \in DOMAIN waitAckJobs :
                 /\ waitAckJobs'[id].MasterMeta = waitAckJobs[id].MasterMeta
                 /\ waitAckJobs'[id].WorkerHandle = waitAckJobs[id].WorkerHandle]_vars

(* IterWaitAckJobs has called dispatchJobFn for a failover entry while
   waitAckJobs holds an entry that IterPendingJobs created, which it skips *)
C35_Witness ==
    /\ last.op = "IterWaitAckJobs.dispatchJobFn"
    /\ jobsMu = "IterWaitAckJobs"
    /\ \E id \in cur, k \in DOMAIN waitAckJobs :
        /\ waitAckJobs[id].addFromFailover
        /\ k # id
        /\ ~waitAckJobs[k].addFromFailover
        /\ waitAckJobs[k].MasterMeta \in dispatchErrs

(* the entry under key k, if any, is the same in each map before and after *)
EntryUnchanged(k) ==
    /\ (k \in DOMAIN pendingJobs') = (k \in DOMAIN pendingJobs)
    /\ (k \in DOMAIN waitAckJobs') = (k \in DOMAIN waitAckJobs)
    /\ (k \in DOMAIN onlineJobs') = (k \in DOMAIN onlineJobs)
    /\ k \in DOMAIN pendingJobs => pendingJobs'[k] = pendingJobs[k]
    /\ k \in DOMAIN waitAckJobs => waitAckJobs'[k] = waitAckJobs[k]
    /\ k \in DOMAIN onlineJobs => onlineJobs'[k] = onlineJobs[k]

(* C37: a JobOnline, JobOffline or JobDispatchFailed that carries worker id
   w leaves the entry under every other id w' as it is, with the ID of its
   MasterMeta; and when w keys no entry, as the old id of a job that
   IterPendingJobs has re-dispatched under w', the call changes no map,
   JobOnline and JobDispatchFailed return ErrWorkerNotFound and JobOffline
   ignores the worker. *)
C37_StaleWorkerID ==
    [][\A w \in IDs :
        (last'.op \in {"JobOnline", "JobOffline", "JobDispatchFailed"} /\ last'.id = {w})
        => /\ metaID' = metaID
           /\ \A k \in IDs \ {w} : EntryUnchanged(k)
           /\ ~Held(w) =>
                /\ UNCHANGED maps
                /\ last'.err = IF last'.op = "JobOffline"
                                 THEN WarnUnknownWorker
                                 ELSE ErrWorkerNotFound]_vars

(* JobDispatchFailed for an id that keys no entry has just been rejected,
   with a job in waitAckJobs under another id, not yet acknowledged, whose
   dispatch has failed before *)
C37_Witness ==
    /\ last.op = "JobDispatchFailed"
    /\ last.err = ErrWorkerNotFound
    /\ \E w \in last.id, k \in DOMAIN waitAckJobs :
        /\ ~Held(w)
        /\ k # w
        /\ waitAckJobs[k].WorkerHandle = NilHandle
        /\ ~waitAckJobs[k].addFromFailover
        /\ metaID[waitAckJobs[k].MasterMeta] = k
        /\ waitAckJobs[k].MasterMeta \in dispatchErrs
        /\ Len(metaID) = 1

----------------------------------------------------------------------------
(* QueryJob (servermaster/job_fsm.go), under the specification SpecQuery:
   the Job FSM with one caller of QueryJob beside the callers of the other
   operations.  QueryJob takes and releases jobsMu once for each of its
   three lookups, so any FSM operation can run between two of them. *)

(* the FSM is left as it is by a lookup *)
QueryFrame == UNCHANGED <<maps, metaID, jobsMu, cur, last, live, dispatchErrs>>

(* QueryJob(jobID): checkPendingJob *)
QueryJobCheckPending(jobID) ==
    /\ qpc = "idle"
    /\ jobsMu = "free"
    /\ IF jobID \in DOMAIN pendingJobs
         THEN /\ qresp' = QueryJobResponse({jobID}, "pending")
              /\ qpc' = "idle"
              /\ qid' = {}
              /\ qheld' = TRUE
         ELSE /\ qresp' = QueryJobResponse({}, "none")
              /\ qpc' = "checkWaitAckJob"
              /\ qid' = {jobID}
              /\ qheld' = (jobID \in DOMAIN waitAckJobs \cup DOMAIN onlineJobs)
    /\ QueryFrame
    /\ UNCHANGED notQueryVars

(* QueryJob: checkWaitAckJob, after checkPendingJob returned nil *)
QueryJobCheckWaitAck ==
    /\ qpc = "checkWaitAckJob"
    /\ jobsMu = "free"
    /\ IF qid \subseteq DOMAIN waitAckJobs
         THEN /\ qresp' = QueryJobResponse(qid, "dispatched")
              /\ qpc' = "idle"
              /\ qid' = {}
              /\ qheld' = TRUE
         ELSE /\ qresp' = QueryJobResponse({}, "none")
              /\ qpc' = "checkOnlineJob"
              /\ UNCHANGED <<qid, qheld>>
    /\ QueryFrame
    /\ UNCHANGED notQueryVars

(* QueryJob: checkOnlineJob, after checkWaitAckJob returned nil.  toPB is
   what job.ToPB() returns for a holder found: "info" for a WorkerInfo,
   "err" for an error, "nil" for (nil, nil). *)
QueryJobCheckOnline(toPB) ==
    /\ qpc = "checkOnlineJob"
    /\ jobsMu = "free"
    /\ qresp' = QueryJobResponse(qid, IF qid \subseteq DOMAIN onlineJobs /\ toPB # "nil"
                                         THEN "online"
                                         ELSE "nil")
    /\ qpc' = "idle"
    /\ qid' = {}
    /\ qheld' = TRUE
    /\ QueryFrame
    /\ UNCHANGED notQueryVars

QueryNext ==
    \/ Next
    \/ \E jobID \in IDs : QueryJobCheckPending(jobID)
    \/ QueryJobCheckWaitAck
    \/ \E toPB \in {"info", "err", "nil"} : QueryJobCheckOnline(toPB)

SpecQuery == Init /\ [][QueryNext]_vars

(* C36: QueryJob(id) returns the status of a map that holds the id at the
   lookup, and when it returns nil the id was in none of the three maps at
   some time during the call: it does not return nil for an id that has been
   held by the FSM during the whole call. *)
C36_QueryJob ==
    [][(qpc # "idle" \/ qpc' # "idle") =>
         \A id \in qresp'.id :
            /\ qresp'.status = "pending" => id \in DOMAIN pendingJobs
            /\ qresp'.status = "dispatched" => id \in DOMAIN waitAckJobs
            /\ qresp'.status = "online" => id \in DOMAIN onlineJobs
            /\ qresp'.status = "nil" => ~qheld]_vars

----------------------------------------------------------------------------
(* Termination of the two stages of cvsTask, checked under SpecStages *)

(* a step of the goroutine that runs Receive *)
ReceiveStep ==
    \/ RecvDial
    \/ RecvReadLines
    \/ RecvRecvPair
    \/ RecvRecvEof
    \/ RecvRecvErr
    \/ RecvSelectSend
    \/ RecvSelectDone
    \/ RecvSetRunError
    \/ RecvSetStatusCode

(* a step of the goroutine that runs Send *)
SendStep ==
    \/ SendDial
    \/ SendWriteLines
    \/ SendSelectRecv
    \/ SendSelectClosed
    \/ SendSelectDone
    \/ SendWriteOk
    \/ SendWriteErr
    \/ SendCloseAndRecv
    \/ SendSetRunError
    \/ SendSetStatusError
    \/ SendSetStatusFinished

(* The worker implementations with the Go scheduler: a goroutine that can
   take a step takes one, and every rpc returns.  Nothing obliges the
   framework to call Tick or CloseImpl. *)
SpecStages == Init /\ [][WkNext]_vars /\ WF_vars(ReceiveStep) /\ WF_vars(SendStep)

(* Receive has returned an error to its goroutine *)
ReceiveFailed == pcRecv \in {"setRunError", "setStatusCode"}

(* Send has returned an error to its goroutine *)
SendFailed == pcSend \in {"setRunError", "setRunError(ctx.Err())", "setStatusCode(Error)"}

(* C38: once the task ctx is cancelled both goroutines come to their end,
   and once one stage has returned an error the goroutine of the other
   stage comes to its end as well. *)
C38_UnifiedCancellation ==
    /\ taskCtxDone ~> (pcRecv = "done" /\ pcSend = "done")
    /\ ReceiveFailed ~> (pcSend = "done")
    /\ SendFailed ~> (pcRecv = "done")

----------------------------------------------------------------------------
(* A further property of cvsTask, checked under SpecWorker *)

(* C39: while the status code is Finished, Receive has reached the end of
   the file and closed the buffer, the buffer is empty and the counter is
   the number of pairs Receive has put into the buffer; while the status
   code is Error the run error is not nil, and Exit has never been called
   with the status Error and a nil error. *)
C39_FinishedIsComplete ==
    /\ code = "Finished" =>
          /\ pcRecv = "done"
          /\ bufClosed
          /\ buffer = << >>
          /\ reply = {}
          /\ counter = recvd
          /\ Len(written) = recvd
    /\ code = "Error" => runError # NoErr
    /\ \A e \in exits : e[1] = "Error" => e[2] # NoErr

(* the task is Finished after a copy of MaxPairs pairs, and Exit has been
   called *)
C39_Witness ==
    /\ code = "Finished"
    /\ counter = MaxPairs
    /\ counter > 0
    /\ <<"Finished", NoErr>> \in exits

----------------------------------------------------------------------------
(* Part 7: the etcd response adapters *)

(* the keys of the etcd key-values *)
RespKeys == {"k1", "k2"}

(* mvccpb.KeyValue as etcd returns it; Version 0 is a deleted key *)
EtcdKeyValues == [Key : RespKeys, Value : {"v"}, Version : 0..1, ModRevision : 1..2]

RECURSIVE SeqsUpTo(_, _)
(* the sequences over S of length n or less *)
SeqsUpTo(S, n) ==
    IF n = 0 THEN {<< >>}
    ELSE LET shorter == SeqsUpTo(S, n - 1)
         IN shorter \cup {Append(q, x) : q \in shorter, x \in S}

(* the responses of an etcd TxnResponse: a range response carries Kvs, a
   nested txn response carries Responses *)
EtcdResponseOps ==
    LET leaf == {[Response |-> "ResponsePut"], [Response |-> "ResponseDeleteRange"]}
    IN leaf
       \cup {[Response |-> "ResponseRange", Kvs |-> kvs] : kvs \in SeqsUpTo(EtcdKeyValues, 1)}
       \cup {[Response |-> "ResponseTxn", Responses |-> rs] : rs \in SeqsUpTo(leaf, 1)}

(* make([]T, n): a slice of n zero values *)
make(zero, n) == [i \in 1..n |-> zero]

(* the nil *metaclient.KeyValue *)
NilKeyValue == [nil |-> TRUE]

(* the zero metaclient.ResponseOp: its Response is nil *)
ZeroResponseOp == [Response |-> "nil"]

(* &metaclient.KeyValue{Key, Value, Revision} built from an etcd key-value *)
KeyValue(ekv) == [Key |-> ekv.Key, Value |-> ekv.Value, Revision |-> ekv.ModRevision]

RECURSIVE makeGetRespLoop(_, _)
(* the range loop of makeGetResp over the etcd key-values still to visit *)
makeGetRespLoop(kvs, rest) ==
    IF rest = << >> THEN kvs
    ELSE LET ekv == Head(rest)
         IN IF ekv.Version = 0
            THEN makeGetRespLoop(kvs, Tail(rest))
            ELSE makeGetRespLoop(Append(kvs, KeyValue(ekv)), Tail(rest))

(* makeGetResp: the Kvs of the GetResponse made from the Kvs of an etcd
   GetResponse *)
makeGetResp(etcdKvsIn) ==
    makeGetRespLoop(make(NilKeyValue, Len(etcdKvsIn)), etcdKvsIn)

RECURSIVE makeTxnResp(_)
RECURSIVE makeTxnRespLoop(_, _)
(* the range loop of makeTxnResp over the etcd responses still to visit *)
makeTxnRespLoop(rsps, rest) ==
    IF rest = << >> THEN rsps
    ELSE LET eRsp == Head(rest)
             op == CASE eRsp.Response = "ResponseRange" ->
                          [Response |-> "ResponseGet", ResponseGet |-> makeGetResp(eRsp.Kvs)]
                     [] eRsp.Response = "ResponsePut" ->
                          [Response |-> "ResponsePut"]
                     [] eRsp.Response = "ResponseDeleteRange" ->
                          [Response |-> "ResponseDelete"]
                     [] eRsp.Response = "ResponseTxn" ->
                          [Response |-> "ResponseTxn",
                           ResponseTxn |-> makeTxnResp(eRsp.Responses)]
         IN makeTxnRespLoop(Append(rsps, op), Tail(rest))

(* makeTxnResp: the Responses of the TxnResponse made from the Responses of
   an etcd TxnResponse *)
makeTxnResp(etcdRspsIn) ==
    makeTxnRespLoop(make(ZeroResponseOp, Len(etcdRspsIn)), etcdRspsIn)

(* a Get of the ekv client returns makeGetResp of what etcd answered *)
MakeGetResp ==
    \E kvs \in SeqsUpTo(EtcdKeyValues, MaxKvs) :
        /\ etcdKvs' = kvs
        /\ getResp' = makeGetResp(kvs)
        /\ UNCHANGED <<etcdRsps, txnResp>>
        /\ UNCHANGED notRespVars

(* a committed Txn of the ekv client returns makeTxnResp of what etcd
   answered *)
MakeTxnResp ==
    \E rsps \in SeqsUpTo(EtcdResponseOps, MaxRsps) :
        /\ etcdRsps' = rsps
        /\ txnResp' = makeTxnResp(rsps)
        /\ UNCHANGED <<etcdKvs, getResp>>
        /\ UNCHANGED notRespVars

RespNext ==
    \/ MakeGetResp
    \/ MakeTxnResp

SpecResp == Init /\ [][RespNext]_vars

(* the etcd key-values of a sequence that are not deleted, in order *)
NotDeleted(kvs) == SelectSeq(kvs, LAMBDA x : x.Version # 0)

(* the kind of ResponseOp that answers an etcd response *)
ResponseKind(eRsp) ==
    CASE eRsp.Response = "ResponseRange" -> "ResponseGet"
      [] eRsp.Response = "ResponsePut" -> "ResponsePut"
      [] eRsp.Response = "ResponseDeleteRange" -> "ResponseDelete"
      [] eRsp.Response = "ResponseTxn" -> "ResponseTxn"

(* C40: the Kvs makeGetResp returns are one KeyValue for every etcd
   key-value whose Version is not 0, in the input order, and nothing else:
   no nil entry, no entry of a deleted key, as many entries as inputs that
   are not deleted; the Responses makeTxnResp returns are one ResponseOp for
   every etcd response, in order. *)
C40_AdaptersOneToOne ==
    /\ \A i \in 1..Len(getResp) : getResp[i] # NilKeyValue
    /\ Len(getResp) = Len(NotDeleted(etcdKvs))
    /\ \A i \in 1..Len(getResp) :
          i <= Len(NotDeleted(etcdKvs)) => getResp[i] = KeyValue(NotDeleted(etcdKvs)[i])
    /\ Len(txnResp) = Len(etcdRsps)
    /\ \A i \in 1..Len(txnResp) :
          i <= Len(etcdRsps) => txnResp[i].Response = ResponseKind(etcdRsps[i])

====
